---- MODULE Spec2Model ----
(***************************************************************************)
(* Translation mapping and synchronisation engine of                       *)
(* openedx_wikilearn_features.meta_translations.                           *)
(*                                                                         *)
(* The store is the set of Django tables CourseBlock, CourseBlockData,     *)
(* WikiTranslation and TranslationVersion.  The live course outlines (the  *)
(* modulestore) and the Meta translation service are the environment.      *)
(***************************************************************************)
EXTENDS Integers, Sequences, FiniteSets, TLC

(***************************************************************************)
(* Universe: a base course, its translated rerun, a course id for a rerun  *)
(* that is made later, and five block names.                               *)
(***************************************************************************)
BaseCourse == "B"
RerunCourse == "R"
SecondRerun == "R2"
Courses == {BaseCourse, RerunCourse, SecondRerun}

\* get_course_by_id(course_id).language
CourseLanguage(c) ==
    CASE c = BaseCourse -> "en"
      [] c = RerunCourse -> "fr"
      [] OTHER -> "de"

\* The trailing token of a usage key ("reference key"), as its characters.
\* "b" is a suffix of "xb".  The outline is  a -> { c -> { b, n, m, h }, xb };
\* "n" and "h" are nodes authored in the rerun only.
Names == {"a", "c", "b", "n", "xb", "m", "h"}
NameChars(n) ==
    CASE n = "a" -> <<"a">>
      [] n = "c" -> <<"c">>
      [] n = "b" -> <<"b">>
      [] n = "n" -> <<"n">>
      [] n = "xb" -> <<"x", "b">>
      [] n = "m" -> <<"m">>
      [] n = "h" -> <<"h">>

\* Pre-order position of a name in the outline (a parent precedes its children).
TraversalOrder == <<"a", "c", "b", "n", "m", "h", "xb">>

NoBlock == <<"none", "none">>
BlockIds == Courses \X Names

\* block.parent of the outline node
OutlineParent(c, n) ==
    CASE n = "a" -> NoBlock
      [] n \in {"c", "xb"} -> <<c, "a">>
      [] OTHER -> <<c, "c">>
\* the names of a node and of its descendants
Subtree(n) ==
    CASE n = "a" -> Names
      [] n = "c" -> {"c", "b", "n", "m", "h"}
      [] OTHER -> {n}
\* category of the outline node
OutlineCategory(n) ==
    CASE n = "a" -> "course"
      [] n = "b" -> "problem"
      [] n \in {"m", "h"} -> "html"
      [] OTHER -> "chapter"

DisplayNames == {"Hello", "Hi"}
\* A problem's XML document, as the text of each element keyed by the
\* element's xpath (tree.getpath):
\*   P1 = <problem><p>s1</p></problem>
\*   P2 = <problem><p>s1</p><label>s2</label></problem>
P1 == ("/problem/p" :> "s1")
P2 == ("/problem/p" :> "s1" @@ "/problem/label" :> "s2")
ProblemXml == {P1, P2}
\* a record of the service without the "revision" property
NoRev == 0
Users == {"staff"}
NoUser == "nobody"

\* settings.DATA_TYPES_WITH_PARCED_KEYS and settings.TRANSFORMER_CLASS_MAPPING
DATA_TYPES_WITH_PARCED_KEYS == {"content", "transcript"}
TRANSFORMER_CLASS_MAPPING == {"problem", "video"}
\* settings.FETCH_CALL_DAYS_CONFIG_DEFAULT
FETCH_CALL_DAYS_CONFIG_DEFAULT == 3

\* The empty map: Python None or {} (both falsy).
NoMap == <<>>

\* ProblemTransformer._convert_xpath_to_meta_key_format
_convert_xpath_to_meta_key_format(path) ==
    CASE path = "/problem/p" -> "problem.p"
      [] path = "/problem/label" -> "problem.label"

\* ProblemTransformer._convert_meta_key_format_to_xpath
_convert_meta_key_format_to_xpath(key) ==
    CASE key = "problem.p" -> "/problem/p"
      [] key = "problem.label" -> "/problem/label"
      [] OTHER -> "/" \o key

\* ProblemTransformer.raw_data_to_meta_data: the text of every element, keyed
\* by the converted xpath
raw_data_to_meta_data(raw) ==
    LET keys == {_convert_xpath_to_meta_key_format(p) : p \in DOMAIN raw}
    IN [k \in keys |-> raw[_convert_meta_key_format_to_xpath(k)]]

\* ProblemTransformer._get_element_by_xpath raises for one of the encodings:
\* the document has no element at the key's xpath
EncodingNotFound(xml_data, encodings) ==
    \E k \in DOMAIN encodings : _convert_meta_key_format_to_xpath(k) \notin DOMAIN xml_data

\* ProblemTransformer.meta_data_to_raw_data: the document with the text of
\* the addressed elements replaced
meta_data_to_raw_data(xml_data, encodings) ==
    [p \in DOMAIN xml_data |->
        IF _convert_xpath_to_meta_key_format(p) \in DOMAIN encodings
        THEN encodings[_convert_xpath_to_meta_key_format(p)]
        ELSE xml_data[p]]

\* CourseBlock.get_parsed_data
get_parsed_data(block_type, data_type, data) ==
    IF data_type \in DATA_TYPES_WITH_PARCED_KEYS /\ block_type \in TRANSFORMER_CLASS_MAPPING
    THEN raw_data_to_meta_data(data)
    ELSE NoMap

\* WikiTranslation.is_translation_contains_parsed_keys
is_translation_contains_parsed_keys(block_type, data_type) ==
    block_type \in TRANSFORMER_CLASS_MAPPING /\ data_type \in DATA_TYPES_WITH_PARCED_KEYS

(***************************************************************************)
(* Sequence and map helpers.                                               *)
(***************************************************************************)
\* str.endswith on character sequences
EndsWithSeq(s, t) ==
    /\ Len(t) <= Len(s)
    /\ \A i \in 1..Len(t) : s[Len(s) - Len(t) + i] = t[i]

\* dict.update with one key
MapPut(m, k, v) == [x \in (DOMAIN m) \cup {k} |-> IF x = k THEN v ELSE m[x]]
\* dict.get with default
MapGet(m, k, d) == IF k \in DOMAIN m THEN m[k] ELSE d
MapRemove(m, ks) == [x \in (DOMAIN m) \ ks |-> m[x]]

RECURSIVE SeqFilter(_, _)
\* queryset.filter keeping primary-key order; keep is the set of kept indices
SeqFilter(s, keep) ==
    IF s = <<>> THEN <<>>
    ELSE LET n == Len(s)
             front == SeqFilter(SubSeq(s, 1, n - 1), keep)
         IN IF n \in keep THEN Append(front, s[n]) ELSE front

\* the value of F at x, with x computed once
Bind(x, F(_)) == CHOOSE r \in {F(y) : y \in {x}} : TRUE

(***************************************************************************)
(* State.                                                                  *)
(***************************************************************************)
VARIABLES
    live,                \* outline provider: course -> (name -> data dict of the node)
    course_translations, \* CourseTranslation rows
    blocks,              \* CourseBlock rows, keyed by block_id (unique=True)
    items,               \* CourseBlockData rows, keyed by <<block_id, data_type>>
    links,               \* WikiTranslation rows in primary-key order
    versions,            \* TranslationVersion rows per block_id, in primary-key order
    now,                 \* current day
    service,             \* translation service: base block -> keys of its message group
    runs,                \* the runs in progress: run -> its position and local data
    cron_job_info,       \* MetaCronJobInfo: its latest row, NoMap when the table is empty
    lastOp               \* observation: the operation that produced this state

vars == <<live, course_translations, blocks, items, links, versions, now, service, runs,
          cron_job_info, lastOp>>

\* Bounds of the exploration
MaxDay == 3
MaxVersions == 1

NoDate == -1
NoVersion == 0
_Source == "S"
_DESTINATION == "D"

\* A store value: the tables the mapping code reads and writes, the exception
\* that ended the run (if any) and a log of the mapping attempts of the run.
NoError == [type |-> "none", block_id |-> NoBlock]
Store(b, i, l, v) ==
    [blocks |-> b, items |-> i, links |-> l, versions |-> v, err |-> NoError, log |-> NoMap]
Failed(S) == S.err.type # "none"
Raise(S, type, bid) == [S EXCEPT !.err = [type |-> type, block_id |-> bid]]

\* str(block.block_id) of a usage key, as a character sequence
UsageKeyString(bid) ==
    <<"block-v1:", bid[1], "+type@", OutlineCategory(bid[2]), "+block@">> \o NameChars(bid[2])

\* CourseBlock.add_mapping_language / remove_mapping_language (the JSON list
\* never holds a language twice; its order is not read anywhere)
add_mapping_language(S, bid, language) ==
    [S EXCEPT !.blocks[bid].lang = @ \cup {language}]
remove_mapping_language(S, bid, language) ==
    [S EXCEPT !.blocks[bid].lang = @ \ {language}]

\* signals.add_language_and_set_mapping_update (post_save, created)
add_language_and_set_mapping_update(S, link) ==
    LET S1 == [S EXCEPT !.items[link.source].mapping_updated = TRUE]
    IN add_mapping_language(S1, link.source[1], CourseLanguage(link.target[1]))

\* signals.remove_language_and_set_mapping_update (pre_delete)
remove_language_and_set_mapping_update(S, link) ==
    LET S1 == [S EXCEPT !.items[link.source].mapping_updated = TRUE]
    IN remove_mapping_language(S1, link.source[1], CourseLanguage(link.target[1]))

NewLink(target, source) ==
    [target |-> target, source |-> source, translation |-> NoMap, approved |-> FALSE,
     approved_by |-> NoUser, last_fetched |-> NoDate, fetched_commits |-> NoMap]

\* WikiTranslation.Meta.unique_together = ('target_block', 'source_block_data')
unique_together(ls, target, source) ==
    \A i \in DOMAIN ls : ~(ls[i].target = target /\ ls[i].source = source)

\* WikiTranslation.objects.create(target_block=..., source_block_data=...)
WikiTranslation_create(S, target, source) ==
    IF ~unique_together(S.links, target, source)
    THEN Raise(S, "IntegrityError", target)
    ELSE LET link == NewLink(target, source)
         IN add_language_and_set_mapping_update(
                [S EXCEPT !.links = Append(@, link)], link)

RECURSIVE DeleteLinks(_, _)
\* queryset.delete() of the links at the indices ix: pre_delete runs for each
\* row, then the rows are removed
DeleteLinks(S, ix) ==
    IF ix = {} THEN S
    ELSE LET i == CHOOSE x \in ix : \A y \in ix : x >= y
             S1 == remove_language_and_set_mapping_update(S, S.links[i])
             S2 == [S1 EXCEPT !.links = SeqFilter(@, (DOMAIN @) \ {i})]
         IN DeleteLinks(S2, ix \ {i})

LinksOfTarget(ls, bid) == {i \in DOMAIN ls : ls[i].target = bid}
LinksOfSource(ls, it) == {i \in DOMAIN ls : ls[i].source = it}
LinksOfSourceBlock(ls, bid) == {i \in DOMAIN ls : ls[i].source[1] = bid}
ItemsOfBlock(its, bid) == {it \in DOMAIN its : it[1] = bid}
MinOf(ix) == CHOOSE x \in ix : \A y \in ix : x <= y

\* CourseBlock.delete(): on_delete=CASCADE removes the block's items and the
\* links that point at the block or at one of its items
CourseBlock_delete(S, bid) ==
    LET ix == {i \in DOMAIN S.links : S.links[i].target = bid \/ S.links[i].source[1] = bid}
        S1 == DeleteLinks(S, ix)
    IN [S1 EXCEPT !.blocks = MapRemove(@, {bid}),
                  !.items = MapRemove(@, ItemsOfBlock(@, bid))]

(***************************************************************************)
(* mapping/utils.py and models.py: the block mapping resolver.             *)
(***************************************************************************)
DataTypeOrder == <<"display_name", "content">>

\* get_block_data: the dict of one outline node
get_block_data(lv, c, n) ==
    [usage_key |-> <<c, n>>, parent_usage_key |-> OutlineParent(c, n),
     category |-> OutlineCategory(n), data |-> lv[c][n]]

\* get_recursive_blocks_data(course, 4, structured=False): the nodes in pre-order
get_recursive_blocks_data(lv, c) ==
    LET present == {i \in DOMAIN TraversalOrder : TraversalOrder[i] \in DOMAIN lv[c]}
        names == SeqFilter(TraversalOrder, present)
    IN [i \in DOMAIN names |-> get_block_data(lv, c, names[i])]

\* the keys of a node's data dict, in dict order
DataKeys(node) ==
    SeqFilter(DataTypeOrder, {i \in DOMAIN DataTypeOrder : DataTypeOrder[i] \in DOMAIN node.data})

NewBlock(node, direction) ==
    [parent_id |-> node.parent_usage_key, block_type |-> node.category,
     direction_flag |-> direction, lang |-> {}, applied_translation |-> FALSE,
     applied_version |-> NoVersion, translated |-> FALSE, deleted |-> FALSE,
     extra |-> NoMap]

NewItem(block_type, data_type, data) ==
    [data |-> data, parsed_keys |-> get_parsed_data(block_type, data_type, data),
     content_updated |-> FALSE, mapping_updated |-> FALSE]

\* CourseBlock.create_course_block_from_dict
create_course_block_from_dict(S, node, create_block_data) ==
    LET bid == node.usage_key
    IN IF create_block_data
       THEN [S EXCEPT
               !.blocks = MapPut(@, bid, NewBlock(node, _Source)),
               !.items = [it \in (DOMAIN @) \cup {<<bid, k>> : k \in DOMAIN node.data} |->
                            IF it \in DOMAIN @ THEN @[it]
                            ELSE NewItem(node.category, it[2], node.data[it[2]])]]
       ELSE [S EXCEPT !.blocks = MapPut(@, bid, NewBlock(node, _DESTINATION))]

RECURSIVE ResetLinks(_, _, _)
\* the loop of utils.reset_fetched_translation_and_version_history
ResetLinks(S, ls, i) ==
    IF i > Len(ls) THEN S
    ELSE LET t == ls[i].target
             j == CHOOSE x \in DOMAIN S.links :
                      S.links[x].target = t /\ S.links[x].source = ls[i].source
         IN Bind([S EXCEPT
                    !.links[j].translation = NoMap,
                    !.links[j].approved = FALSE,
                    !.blocks[t].applied_version = NoVersion,
                    !.blocks[t].applied_translation = FALSE,
                    !.blocks[t].translated = FALSE,
                    !.versions[t] = <<>>],
                 LAMBDA S1 : ResetLinks(S1, ls, i + 1))

\* utils.reset_fetched_translation_and_version_history
reset_fetched_translation_and_version_history(S, it) ==
    ResetLinks(S, SeqFilter(S.links, LinksOfSource(S.links, it)), 1)

\* CourseBlockData.update_base_block_data
update_base_block_data(S, it, updated_data) ==
    IF it \notin DOMAIN S.items THEN S
    ELSE Bind([S EXCEPT
                 !.items[it].data = updated_data,
                 !.items[it].parsed_keys =
                     get_parsed_data(S.blocks[it[1]].block_type, it[2], updated_data),
                 !.items[it].content_updated = TRUE],
              LAMBDA S1 : reset_fetched_translation_and_version_history(S1, it))

RECURSIVE MapBaseData_without_comparison(_, _, _, _)
\* the loop without the test existing_data.data != value
MapBaseData_without_comparison(S, node, keys, i) ==
    IF i > Len(keys) THEN S
    ELSE LET key == keys[i]
             value == node.data[key]
             it == <<node.usage_key, key>>
         IN Bind(IF it \in DOMAIN S.items
                 THEN update_base_block_data(S, it, value)
                 ELSE [S EXCEPT !.items = MapPut(@, it,
                          NewItem(S.blocks[it[1]].block_type, key, value))],
                 LAMBDA S1 : MapBaseData_without_comparison(S1, node, keys, i + 1))

RECURSIVE MapBaseData(_, _, _, _)
\* the loop over the node's data in map_base_course_block
MapBaseData(S, node, keys, i) ==
    IF i > Len(keys) THEN S
    ELSE LET key == keys[i]
             value == node.data[key]
             it == <<node.usage_key, key>>
         IN Bind(IF it \in DOMAIN S.items
                 THEN IF S.items[it].data # value
                      THEN update_base_block_data(S, it, value)
                      ELSE S
                 ELSE [S EXCEPT !.items = MapPut(@, it,
                          NewItem(S.blocks[it[1]].block_type, key, value))],
                 LAMBDA S1 : MapBaseData(S1, node, keys, i + 1))

\* mapping.utils.map_base_course_block
map_base_course_block(S, node) ==
    IF node.usage_key \notin DOMAIN S.blocks
    THEN create_course_block_from_dict(S, node, TRUE)
    ELSE MapBaseData(S, node, DataKeys(node), 1)

\* base_course_blocks_data of check_and_map_course_blocks: the lazy queryset
\* CourseBlockData.objects.filter(course_block__course_id=base, course_block__deleted=False)
base_course_blocks_data(S, base_course_key) ==
    {it \in DOMAIN S.items : it[1][1] = base_course_key /\ ~S.blocks[it[1]].deleted}

\* .get(course_block__block_id__endswith=reference_key, data_type=key)
ReferenceKeyCandidates(S, base, target, key) ==
    {it \in base_course_blocks_data(S, base) :
        /\ EndsWithSeq(UsageKeyString(it[1]), NameChars(target[2]))
        /\ it[2] = key}

\* cls.objects.filter(target_block__block_id=parent_id).first()
ParentMapping(S, parent_id) == LinksOfTarget(S.links, parent_id)

\* .get(course_block__parent_id=base_parent_id, data_type=key, data=value)
ParentScopedCandidates(S, base, parent_id, key, value) ==
    LET pm == ParentMapping(S, parent_id)
        base_parent_id == S.links[MinOf(pm)].source[1]
    IN IF pm = {} THEN {}
       ELSE {it \in base_course_blocks_data(S, base) :
                /\ S.blocks[it[1]].parent_id = base_parent_id
                /\ it[2] = key
                /\ S.items[it].data = value}

\* .get(data_type=key, data=value)
WholeCourseCandidates(S, base, key, value) ==
    {it \in base_course_blocks_data(S, base) : it[2] = key /\ S.items[it].data = value}

\* what one call of create_translation_mapping saw and did
Attempt(S, base, key, value, parent_id, target, result) ==
    [ref |-> ReferenceKeyCandidates(S, base, target, key),
     parent_mapped |-> ParentMapping(S, parent_id) # {},
     parent_scoped |-> ParentScopedCandidates(S, base, parent_id, key, value),
     whole_course |-> WholeCourseCandidates(S, base, key, value),
     result |-> result]

Logged(S, S0, base, key, value, parent_id, target, result) ==
    [S EXCEPT !.log = MapPut(@, <<target, key>>,
                         Attempt(S0, base, key, value, parent_id, target, result))]

CreateLogged(S, base, key, value, parent_id, target, it) ==
    LET S1 == WikiTranslation_create(S, target, it)
    IN Logged(S1, S, base, key, value, parent_id, target, IF Failed(S1) THEN {} ELSE {it})

\* Variant: the whole course is searched whenever the parent-scoped search is empty.
create_translation_mapping_by_value_fallthrough(S, base, key, value, parent_id, target) ==
    LET ps == ParentScopedCandidates(S, base, parent_id, key, value)
        cands == IF ps # {} THEN ps ELSE WholeCourseCandidates(S, base, key, value)
    IN IF Cardinality(cands) > 1
       THEN Logged(Raise(S, "MultipleObjectsFoundInMappingCreation", target),
                   S, base, key, value, parent_id, target, {})
       ELSE IF cands = {}
       THEN Logged(S, S, base, key, value, parent_id, target, {})
       ELSE CreateLogged(S, base, key, value, parent_id, target, CHOOSE x \in cands : TRUE)

\* the value comparison of create_translation_mapping (the handler of
\* CourseBlockData.DoesNotExist)
create_translation_mapping_by_value(S, base, key, value, parent_id, target) ==
    LET cands == IF ParentMapping(S, parent_id) # {}
                 THEN ParentScopedCandidates(S, base, parent_id, key, value)
                 ELSE WholeCourseCandidates(S, base, key, value)
    IN IF Cardinality(cands) > 1
       THEN Logged(Raise(S, "MultipleObjectsFoundInMappingCreation", target),
                   S, base, key, value, parent_id, target, {})
       ELSE IF cands = {}
       THEN Logged(S, S, base, key, value, parent_id, target, {})
       ELSE LET it == CHOOSE x \in cands : TRUE
            IN IF S.blocks[it[1]].deleted
               THEN Logged(S, S, base, key, value, parent_id, target, {})
               ELSE CreateLogged(S, base, key, value, parent_id, target, it)

\* WikiTranslation.create_translation_mapping
create_translation_mapping(S, base, key, value, parent_id, target) ==
    LET reference_key == NameChars(target[2])
        cands == ReferenceKeyCandidates(S, base, target, key)
    IN IF reference_key # <<>> /\ Cardinality(cands) > 1
       THEN \* MultipleObjectsReturned is not handled by "except DoesNotExist"
            Logged(Raise(S, "MultipleObjectsReturned", NoBlock),
                   S, base, key, value, parent_id, target, {})
       ELSE IF reference_key # <<>> /\ cands # {}
       THEN LET it == CHOOSE x \in cands : TRUE
            IN IF S.blocks[it[1]].deleted
               THEN Logged(S, S, base, key, value, parent_id, target, {})
               ELSE CreateLogged(S, base, key, value, parent_id, target, it)
       ELSE create_translation_mapping_by_value(S, base, key, value, parent_id, target)

\* Variant: the lookup of the existing mapping compares the wrong block.
ExistingMapping_wrong_block(S, target, key) ==
    {i \in LinksOfSourceBlock(S.links, target) : S.links[i].source[2] = key}

\* WikiTranslation.objects.get(source_block_data__data_type=key, target_block=course_block)
ExistingMapping(S, target, key) ==
    {i \in LinksOfTarget(S.links, target) : S.links[i].source[2] = key}

RECURSIVE MapTranslatedData(_, _, _, _, _, _)
\* the loops over the node's data in map_translated_course_block
MapTranslatedData(S, base, node, keys, i, is_new) ==
    IF i > Len(keys) \/ Failed(S) THEN S
    ELSE LET key == keys[i]
             found == ExistingMapping(S, node.usage_key, key)
         IN Bind(IF is_new \/ found = {}
                 THEN create_translation_mapping(S, base, key, node.data[key],
                                                 node.parent_usage_key, node.usage_key)
                 ELSE IF Cardinality(found) > 1
                 THEN Raise(S, "MultipleObjectsReturned", NoBlock)
                 ELSE S,
                 LAMBDA S1 : MapTranslatedData(S1, base, node, keys, i + 1, is_new))

\* mapping.utils.map_translated_course_block
map_translated_course_block(S, base, node) ==
    IF node.usage_key \notin DOMAIN S.blocks
    THEN Bind(create_course_block_from_dict(S, node, FALSE),
              LAMBDA S1 : MapTranslatedData(S1, base, node, DataKeys(node), 1, TRUE))
    ELSE MapTranslatedData(S, base, node, DataKeys(node), 1, FALSE)

RECURSIVE MapOutline(_, _, _, _)
\* the loop over the outline in check_and_map_course_blocks
MapOutline(S, outline, base, i) ==
    IF i > Len(outline) \/ Failed(S) THEN S
    ELSE Bind(IF base = "none"
              THEN map_base_course_block(S, outline[i])
              ELSE map_translated_course_block(S, base, outline[i]),
              LAMBDA S1 : MapOutline(S1, outline, base, i + 1))

RECURSIVE DeleteBlocks(_, _)
DeleteBlocks(S, bids) ==
    IF bids = {} THEN S
    ELSE LET b == CHOOSE x \in bids : TRUE
         IN Bind(CourseBlock_delete(S, b), LAMBDA S1 : DeleteBlocks(S1, bids \ {b}))

\* mapping.utils.check_and_map_course_blocks
check_and_map_course_blocks(S, outline, course_key, base_course_key) ==
    LET course_outline_blocks_ids == {outline[i].usage_key : i \in DOMAIN outline}
        existing_course_blocks_ids(S1) == {b \in DOMAIN S1.blocks : b[1] = course_key}
    IN Bind(MapOutline(S, outline, base_course_key, 1),
            LAMBDA S1 :
               IF Failed(S1) \/ base_course_key = "none" THEN S1
               ELSE DeleteBlocks(S1, existing_course_blocks_ids(S1)
                                         \ course_outline_blocks_ids))

\* mapping.utils.course_blocks_mapping; the result is the store after the run
course_blocks_mapping(S, lv, ct, course_key) ==
    LET as_rerun == {r \in ct : r.course_id = course_key}
        base_course_key == (CHOOSE r \in as_rerun : TRUE).base_course_id
    IN IF as_rerun # {}
       THEN Bind(check_and_map_course_blocks(
                     S, get_recursive_blocks_data(lv, base_course_key),
                     base_course_key, "none"),
                 LAMBDA S1 : check_and_map_course_blocks(
                                 S1, get_recursive_blocks_data(lv, course_key),
                                 course_key, base_course_key))
       ELSE IF \E r \in ct : r.base_course_id = course_key
       THEN check_and_map_course_blocks(
                S, get_recursive_blocks_data(lv, course_key), course_key, "none")
       ELSE S

\* CourseTranslation.is_translated_rerun_exists_in_language
is_translated_rerun_exists_in_language(lv, ct, base_course_id, language) ==
    \E r \in ct :
        /\ r.base_course_id = base_course_id
        /\ r.course_id \in Courses
        /\ lv[r.course_id] # NoMap
        /\ CourseLanguage(r.course_id) = language

\* utils.validate_translated_rerun: TRUE when no error response is returned
\* (every course of the universe has a language)
validate_translated_rerun(lv, ct, source_course_key, language) ==
    /\ language # ""
    /\ ~is_translated_rerun_exists_in_language(lv, ct, source_course_key, language)

\* CourseTranslation.set_course_translation
set_course_translation(ct, course_key, source_key) ==
    ct \cup {[course_id |-> course_key, base_course_id |-> source_key, outdated |-> FALSE]}

\* CourseTranslation.is_base_or_translated_course
is_base_or_translated_course(ct, course_key) ==
    IF \E r \in ct : r.base_course_id = course_key THEN "BASE"
    ELSE IF \E r \in ct : r.course_id = course_key THEN "TRANSLATED"
    ELSE ""

\* CourseTranslation.delete_base_course
delete_base_course(S, course_id) ==
    [S EXCEPT
       !.blocks = [b \in DOMAIN @ |->
                     IF b[1] = course_id THEN [@[b] EXCEPT !.lang = {}, !.deleted = TRUE]
                     ELSE @[b]],
       !.items = [it \in DOMAIN @ |->
                    IF it[1][1] = course_id THEN [@[it] EXCEPT !.mapping_updated = TRUE]
                    ELSE @[it]]]

\* CourseTranslation.delete_translated_course
delete_translated_course(S, course_id, base_course_id) ==
    LET course_blocks_ids == {b \in DOMAIN S.blocks : b[1] = course_id}
        language == CourseLanguage(course_id)
        S1 == [S EXCEPT
                 !.blocks = [b \in DOMAIN @ |->
                               IF b \in course_blocks_ids
                               THEN [@[b] EXCEPT !.applied_translation = FALSE,
                                                 !.applied_version = NoVersion]
                               ELSE @[b]],
                 !.versions = [b \in DOMAIN @ |->
                                 IF b \in course_blocks_ids THEN <<>> ELSE @[b]]]
        S2 == DeleteLinks(S1, {i \in DOMAIN S1.links : S1.links[i].target \in course_blocks_ids})
        S3 == [S2 EXCEPT
                 !.blocks = [b \in DOMAIN @ |->
                               IF b[1] = base_course_id
                               THEN [@[b] EXCEPT !.lang = @ \ {language}]
                               ELSE @[b]],
                 !.items = [it \in DOMAIN @ |->
                              IF it[1][1] = base_course_id
                              THEN [@[it] EXCEPT !.mapping_updated = TRUE]
                              ELSE @[it]]]
    IN DeleteBlocks(S3, course_blocks_ids)

RECURSIVE DeleteTranslatedCourses(_, _, _)
\* the loop over the translated courses in delete_base_or_translated_course
DeleteTranslatedCourses(S, translated_courses_ids, course_id) ==
    IF translated_courses_ids = {} THEN S
    ELSE LET c == CHOOSE x \in translated_courses_ids : TRUE
         IN Bind(delete_translated_course(S, c, course_id),
                 LAMBDA S1 : DeleteTranslatedCourses(S1, translated_courses_ids \ {c},
                                                     course_id))

\* CourseTranslation.delete_base_or_translated_course: the store and the
\* linkage rows after the call
delete_base_or_translated_course(S, ct, course_id) ==
    LET course_status == is_base_or_translated_course(ct, course_id)
        translated_courses == {r \in ct : r.base_course_id = course_id}
    IN IF course_status = "BASE"
       THEN [store |-> delete_base_course(
                           DeleteTranslatedCourses(
                               S, {r.course_id : r \in translated_courses}, course_id),
                           course_id),
             ct |-> (ct \ translated_courses)
                       \cup {[course_id |-> "none", base_course_id |-> course_id,
                              outdated |-> TRUE]}]
       ELSE IF course_status = "TRANSLATED"
       THEN [store |-> delete_translated_course(
                           S, course_id,
                           (CHOOSE r \in ct : r.course_id = course_id).base_course_id),
             ct |-> {r \in ct : r.course_id # course_id}]
       ELSE [store |-> S, ct |-> ct]

\* CourseBlock.get_source_block: the block of the first mapping's source item
get_source_block(S, bid) ==
    LET ix == LinksOfTarget(S.links, bid)
    IN IF ix = {} THEN NoBlock ELSE S.links[MinOf(ix)].source[1]

\* "for data in source_block.courseblockdata_set.all(): data.mapping_updated = True"
SetMappingUpdated(S, bid) ==
    [S EXCEPT !.items = [it \in DOMAIN @ |->
        IF it[1] = bid THEN [@[it] EXCEPT !.mapping_updated = TRUE] ELSE @[it]]]

\* Variant: the source block's items are not flagged.
update_flag_to_source_unflagged(S, bid, target_course_language) ==
    IF S.blocks[bid].direction_flag = _DESTINATION
    THEN LET source_block == get_source_block(S, bid)
             S1 == IF source_block # NoBlock
                   THEN remove_mapping_language(S, source_block, target_course_language)
                   ELSE S
         IN [S1 EXCEPT !.blocks[bid].direction_flag = _Source]
    ELSE Raise(S, "no_change", bid)

\* CourseBlock.update_flag_to_source; the result is the store, S.err.type is
\* "none" when the method returned the block and "no_change" when it returned None
update_flag_to_source(S, bid, target_course_language) ==
    IF S.blocks[bid].direction_flag = _DESTINATION
    THEN LET source_block == get_source_block(S, bid)
             S1 == IF source_block # NoBlock
                   THEN SetMappingUpdated(
                            remove_mapping_language(S, source_block, target_course_language),
                            source_block)
                   ELSE S
         IN [S1 EXCEPT !.blocks[bid].direction_flag = _Source]
    ELSE Raise(S, "no_change", bid)

\* Variant: the flag is set without looking for a source block.
update_flag_to_destination_unchecked(S, bid, target_course_language) ==
    IF S.blocks[bid].direction_flag = _Source
    THEN [S EXCEPT !.blocks[bid].direction_flag = _DESTINATION]
    ELSE Raise(S, "no_change", bid)

\* CourseBlock.update_flag_to_destination
update_flag_to_destination(S, bid, target_course_language) ==
    IF S.blocks[bid].direction_flag = _Source
    THEN LET source_block == get_source_block(S, bid)
         IN IF source_block # NoBlock
            THEN [SetMappingUpdated(
                      add_mapping_language(S, source_block, target_course_language),
                      source_block)
                  EXCEPT !.blocks[bid].direction_flag = _DESTINATION]
            ELSE Raise(S, "no_change", bid)
    ELSE Raise(S, "no_change", bid)

\* views.update_block_direction_flag
update_block_direction_flag(S, locator, destination_flag) ==
    IF (destination_flag /\ S.blocks[locator].direction_flag = _Source)
         \/ S.blocks[locator].direction_flag = _DESTINATION
    THEN IF destination_flag
         THEN update_flag_to_destination(S, locator, CourseLanguage(locator[1]))
         ELSE update_flag_to_source(S, locator, CourseLanguage(locator[1]))
    ELSE Raise(S, "invalid_request", locator)

RECURSIVE DisableLinkedTargets(_, _)
\* the loop over the mappings in handle_base_course_block_deletion
DisableLinkedTargets(S, bid) ==
    LET ix == LinksOfSourceBlock(S.links, bid)
    IN IF ix = {} THEN S
       ELSE LET i == MinOf(ix)
                target == S.links[i].target
                S1 == update_flag_to_source(S, target, CourseLanguage(target[1]))
                S2 == DeleteLinks([S1 EXCEPT !.err = NoError], {i})
            IN DisableLinkedTargets(S2, bid)

\* Variant: the blocks are flagged deleted and their links are left alone.
handle_base_course_block_deletion_flag_only(S, children_ids) ==
    [S EXCEPT !.blocks = [b \in DOMAIN @ |->
        IF b \in children_ids THEN [@[b] EXCEPT !.deleted = TRUE] ELSE @[b]]]

RECURSIVE handle_base_course_block_deletion(_, _)
\* utils.handle_base_course_block_deletion over the ids of the block and of
\* its children
handle_base_course_block_deletion(S, children_ids) ==
    IF children_ids = {} THEN S
    ELSE LET b == CHOOSE x \in children_ids : TRUE
             S1 == IF b \in DOMAIN S.blocks
                   THEN [DisableLinkedTargets(S, b) EXCEPT !.blocks[b].deleted = TRUE]
                   ELSE S
         IN handle_base_course_block_deletion(S1, children_ids \ {b})

(***************************************************************************)
(* management/commands/sync_untranslated_strings_to_meta_from_edx.py:      *)
(* the push of base content to the translation service.                    *)
(***************************************************************************)
\* CourseTranslation.get_base_courses_list
get_base_courses_list(ct, outdated) ==
    {r.base_course_id : r \in {x \in ct : outdated \/ ~x.outdated}}

\* the units one CourseBlockData contributes to the request of its block:
\* its parsed keys, or {data_type: data} when it has none
RequestUnitsOfItem(S, it) ==
    IF S.items[it].parsed_keys # NoMap
    THEN S.items[it].parsed_keys
    ELSE (it[2] :> S.items[it].data)

\* Variant: only the items that are flagged contribute units.
RequestUnits_dirty_only(S, bid) ==
    LET its == {it \in ItemsOfBlock(S.items, bid) :
                   S.items[it].content_updated \/ S.items[it].mapping_updated}
        keys == UNION {DOMAIN RequestUnitsOfItem(S, it) : it \in its}
    IN [k \in keys |->
          RequestUnitsOfItem(S, CHOOSE it \in its : k \in DOMAIN RequestUnitsOfItem(S, it))[k]]

\* "for data in block_data: request_arguments.update(...)": the units of ALL
\* the items of the block
RequestUnits(S, bid) ==
    LET its == ItemsOfBlock(S.items, bid)
        keys == UNION {DOMAIN RequestUnitsOfItem(S, it) : it \in its}
    IN [k \in keys |->
          RequestUnitsOfItem(S, CHOOSE it \in its : k \in DOMAIN RequestUnitsOfItem(S, it))[k]]

\* Command._get_request_data_list: one request per base block that has an
\* item with content_updated or mapping_updated
_get_request_data_list(S, ct) ==
    LET updated == {b \in DOMAIN S.blocks :
                       /\ b[1] \in get_base_courses_list(ct, TRUE)
                       /\ \E it \in ItemsOfBlock(S.items, b) :
                             S.items[it].content_updated \/ S.items[it].mapping_updated}
    IN [b \in updated |-> RequestUnits(S, b)]

\* Variant: one success response clears the flags of the whole batch.
_reset_mapping_updated_and_content_updated_whole_batch(S, succeeded) ==
    [S EXCEPT
       !.items = [it \in DOMAIN @ |->
                    IF succeeded # {} /\ it[1][1] = BaseCourse
                    THEN [@[it] EXCEPT !.content_updated = FALSE, !.mapping_updated = FALSE]
                    ELSE @[it]],
       !.blocks = [b \in DOMAIN @ |->
                    IF b \in succeeded /\ ItemsOfBlock(S.items, b) # {}
                    THEN [@[b] EXCEPT !.extra = MapPut(@, "meta_page_title", b)]
                    ELSE @[b]]]

\* Command._reset_mapping_updated_and_content_updated over the blocks whose
\* request got a success response (the response echoes the request's title)
_reset_mapping_updated_and_content_updated(S, succeeded) ==
    [S EXCEPT
       !.items = [it \in DOMAIN @ |->
                    IF it[1] \in succeeded
                    THEN [@[it] EXCEPT !.content_updated = FALSE, !.mapping_updated = FALSE]
                    ELSE @[it]],
       !.blocks = [b \in DOMAIN @ |->
                    IF b \in succeeded /\ ItemsOfBlock(S.items, b) # {}
                    THEN [@[b] EXCEPT !.extra = MapPut(@, "meta_page_title", b)]
                    ELSE @[b]]]

\* the outcomes the service can give to the requests of one push
PushOutcomes(data_list) == [DOMAIN data_list -> {"success", "failure"}]

\* Command.handle with --commit; outcome gives the service's answer to each request
sync_untranslated_strings_to_meta_from_edx(S, ct, outcome) ==
    LET data_list == _get_request_data_list(S, ct)
    IN IF data_list = NoMap THEN S
       ELSE _reset_mapping_updated_and_content_updated(
                S, {b \in DOMAIN data_list : outcome[b] = "success"})

\* the requests of a push in the order of the list: the base blocks in the
\* order of their rows
RequestOrder(bs) ==
    LET rows == [i \in DOMAIN TraversalOrder |-> <<BaseCourse, TraversalOrder[i]>>]
    IN SeqFilter(rows, {i \in DOMAIN rows : rows[i] \in bs})

\* what can happen to the requests of one push: a success response, a
\* response that parse_response refuses (an error, a status other than
\* 200/201, a body that is not JSON), or an exception of the HTTP session
\* (a timeout, a connection error) that handle_request lets through
TransportOutcomes(data_list) == [DOMAIN data_list -> {"success", "failure", "raise"}]

\* the outcomes of the three requests that open a session: the login token,
\* the login, the CSRF token; a request is made when the one before it
\* succeeded
Sessions ==
    {session \in [token : BOOLEAN, login : BOOLEAN, csrf : BOOLEAN] :
        (session.login => session.token) /\ (session.csrf => session.login)}

\* WikiMetaClient.login_request: the message of the exception it raises,
\* "none" when it returns
login_request(session) ==
    IF ~session.token THEN "Meta Client Error: Unable to get Login Token from Meta."
    ELSE IF ~session.login THEN "Meta Client Error: Failed login request."
    ELSE "none"

\* Command._request_meta_tasks_in_sequential_with_delay: the requests that
\* are sent, up to the first that raises
_request_meta_tasks_in_sequential_with_delay(order, outcome) ==
    LET raising == {i \in DOMAIN order : outcome[order[i]] = "raise"}
    IN IF raising = {} THEN order ELSE SubSeq(order, 1, MinOf(raising))

\* settings.WIKI_META_API_REQUEST_DELAY_IN_SECONDS
WIKI_META_API_REQUEST_DELAY_IN_SECONDS == 20

\* Variant: the next request follows at once.
delay_none(delay_in_sec, execution_time) == 0

\* Command._request_meta_tasks_in_sequential_with_delay: the seconds slept
\* after a request that is not the last
delay(delay_in_sec, execution_time) ==
    IF delay_in_sec - execution_time > 0 THEN delay_in_sec - execution_time ELSE 0

\* Command.async_update_data_on_wiki_meta: the store after the run, the
\* requests that were sent and those the service accepted (it accepts no
\* edit without a CSRF token)
async_update_data_on_wiki_meta(S, data_list, session, outcome) ==
    LET order == RequestOrder(DOMAIN data_list)
        issued == _request_meta_tasks_in_sequential_with_delay(order, outcome)
        sent == {issued[i] : i \in DOMAIN issued}
        accepted == {b \in sent : outcome[b] = "success" /\ session.csrf}
    IN IF login_request(session) # "none"
       THEN [store |-> Raise(S, login_request(session), NoBlock), sent |-> {}, accepted |-> {}]
       ELSE IF \E b \in sent : outcome[b] = "raise"
            THEN [store |-> Raise(S, "ClientError", issued[Len(issued)]),
                  sent |-> sent, accepted |-> accepted]
            ELSE [store |-> _reset_mapping_updated_and_content_updated(S, accepted),
                  sent |-> sent, accepted |-> accepted]

(***************************************************************************)
(* management/commands/sync_translated_strings_to_edx_from_meta.py:        *)
(* the pull of translations from the service.                              *)
(*                                                                         *)
(* A link's translation is a map: None is the empty map, the string of a   *)
(* flat item is the one-entry map data_type :> string, and the JSON text   *)
(* of a parsed item is the decoded dict.                                   *)
(***************************************************************************)
translated_status == {"translated", "proofread"}

\* the keys under which the units of a source item travel
UnitKeys(S, it) ==
    IF S.items[it].parsed_keys # NoMap THEN DOMAIN S.items[it].parsed_keys ELSE {it[2]}

\* the truth value of WikiTranslation.translation, a nullable text: None and
\* the empty text are false; the JSON text of a parsed item is never empty
HasTranslation(S, l) ==
    /\ l.translation # NoMap
    /\ S.items[l.source].parsed_keys = NoMap => l.translation[l.source[2]] # ""

\* Command.is_translated
is_translated(S, l) ==
    /\ HasTranslation(S, l)
    /\ S.items[l.source].parsed_keys # NoMap =>
          \A k \in DOMAIN S.items[l.source].parsed_keys : k \in DOMAIN l.translation

\* Command._get_transation_objects_for_fetch_call
_get_transation_objects_for_fetch_call(S, today) ==
    LET comparison_date == today - FETCH_CALL_DAYS_CONFIG_DEFAULT
    IN {i \in DOMAIN S.links :
          /\ ~S.items[S.links[i].source].content_updated
          /\ \/ S.links[i].last_fetched = NoDate
             \/ ~is_translated(S, S.links[i])
             \/ S.links[i].last_fetched <= comparison_date}

\* Command._get_request_data_dict: source block -> target block of the
\* rerun's language (a later object of the same source block replaces an
\* earlier one)
_get_request_data_dict(S, today) ==
    LET objs == {i \in _get_transation_objects_for_fetch_call(S, today) :
                    S.blocks[S.links[i].target].direction_flag # _Source}
        sources == {S.links[i].source[1] : i \in objs}
    IN [sb \in sources |->
          S.links[CHOOSE i \in objs :
                     /\ S.links[i].source[1] = sb
                     /\ \A j \in objs : S.links[j].source[1] = sb => j <= i].target]

\* Variant: the approval of the link is kept.
_update_translations_in_db_keeps_approval(S, i, updated_translation, updated_commits, today) ==
    [S EXCEPT !.links[i].translation = updated_translation,
              !.links[i].last_fetched = today,
              !.links[i].fetched_commits = updated_commits,
              !.log = MapPut(@, S.links[i].target, TRUE)]

\* Command._update_translations_in_db.  "translation_obj.target_block.applied =
\* False" sets an attribute that is not a field of CourseBlock (the field is
\* applied_translation), so target_block.save() writes the row back unchanged.
_update_translations_in_db(S, i, updated_translation, updated_commits, today) ==
    [S EXCEPT !.links[i].translation = updated_translation,
              !.links[i].approved = FALSE,
              !.links[i].approved_by = NoUser,
              !.links[i].last_fetched = today,
              !.links[i].fetched_commits = updated_commits,
              !.log = MapPut(@, S.links[i].target, TRUE)]

\* key_response.get('properties', {}).get('status' / 'revision'), .get('translation')
ResponseStatus(response_data, k) ==
    IF k \in DOMAIN response_data THEN response_data[k].status ELSE "none"
ResponseRevision(response_data, k) ==
    IF k \in DOMAIN response_data THEN response_data[k].revision ELSE NoRev
ResponseTranslation(response_data, k) ==
    IF k \in DOMAIN response_data THEN response_data[k].translation ELSE "None"

\* Variant: a returned revision always counts as a change.
RevisionChanged_always(key_commit, existing_commit) == key_commit # NoRev

\* Variant: the status alone decides.
KeyIsUpdated_status_only(status, key_commit, existing_commit) ==
    status \in translated_status

\* "key_commit and key_commit != existing_commits.get(key)"
RevisionChanged(key_commit, existing_commit) ==
    key_commit # NoRev /\ key_commit # existing_commit

\* the condition of the comparison branch, as Python groups it:
\* "status in translated_status and not existing_commits.get(key)
\*    or (key_commit and key_commit != existing_commits.get(key))"
KeyIsUpdated(status, key_commit, existing_commit) ==
    \/ status \in translated_status /\ existing_commit = NoRev
    \/ RevisionChanged(key_commit, existing_commit)

\* the body of the loop of Command._check_and_update_translations for one
\* WikiTranslation
CheckAndUpdateOne(S, i, response_data, today) ==
    LET l == S.links[i]
        keys == UnitKeys(S, l.source)
    IN IF ~HasTranslation(S, l) \/ l.last_fetched = NoDate \/ l.fetched_commits = NoMap
       THEN \* no commits to compare: the translated keys are saved directly
            LET done == {k \in keys : ResponseStatus(response_data, k) \in translated_status}
            IN IF done # {}
               THEN _update_translations_in_db(S, i,
                        [k \in done |-> ResponseTranslation(response_data, k)],
                        [k \in done |-> ResponseRevision(response_data, k)], today)
               ELSE S
       ELSE LET upd == {k \in keys :
                           KeyIsUpdated(ResponseStatus(response_data, k),
                                        ResponseRevision(response_data, k),
                                        MapGet(l.fetched_commits, k, NoRev))}
                existing_translation ==
                    [k \in (DOMAIN l.translation) \cup upd |->
                        IF k \in upd THEN ResponseTranslation(response_data, k)
                        ELSE l.translation[k]]
                existing_commits ==
                    [k \in (DOMAIN l.fetched_commits) \cup upd |->
                        IF k \in upd THEN ResponseRevision(response_data, k)
                        ELSE l.fetched_commits[k]]
            IN IF upd # {}
               THEN _update_translations_in_db(S, i, existing_translation, existing_commits, today)
               ELSE [S EXCEPT !.links[i].last_fetched = today]

RECURSIVE CheckAndUpdateLinks(_, _, _, _)
CheckAndUpdateLinks(S, ix, response_data, today) ==
    IF ix = {} THEN S
    ELSE LET i == MinOf(ix)
         IN Bind(CheckAndUpdateOne(S, i, response_data, today),
                 LAMBDA S1 : CheckAndUpdateLinks(S1, ix \ {i}, response_data, today))

\* Command._check_and_update_translations: every WikiTranslation of the
\* target block is processed
_check_and_update_translations(S, response_data, target_block_id, today) ==
    CheckAndUpdateLinks(S, LinksOfTarget(S.links, target_block_id), response_data, today)

RECURSIVE _update_response_translations_in_db(_, _, _, _, _)
\* Command._update_response_translations_in_db; an empty response is skipped
_update_response_translations_in_db(S, data_dict, todo, responses, today) ==
    IF todo = {} THEN S
    ELSE LET sb == CHOOSE x \in todo :
                      \A y \in todo : MinOf(LinksOfSourceBlock(S.links, x))
                                        <= MinOf(LinksOfSourceBlock(S.links, y))
         IN Bind(IF responses[sb].ok
                 THEN _check_and_update_translations(S, responses[sb].data, data_dict[sb], today)
                 ELSE S,
                 LAMBDA S1 : _update_response_translations_in_db(
                                 S1, data_dict, todo \ {sb}, responses, today))

\* utils.validated_and_sort_translated_decodings, its is_valid: every key of
\* the base decodings has a value other than None in the translation
validated_and_sort_translated_decodings(base_decodings, translated_decodings) ==
    \A key \in DOMAIN base_decodings :
        key \in DOMAIN translated_decodings /\ translated_decodings[key] # "None"

\* utils.is_block_translated
is_block_translated(S, bid) ==
    /\ LinksOfTarget(S.links, bid) # {}
    /\ \A i \in LinksOfTarget(S.links, bid) :
          LET l == S.links[i]
          IN IF is_translation_contains_parsed_keys(S.blocks[bid].block_type, l.source[2])
             THEN validated_and_sort_translated_decodings(
                      S.items[l.source].parsed_keys,
                      IF l.translation = NoMap THEN NoMap ELSE l.translation)
             ELSE l.translation # NoMap /\ l.translation[l.source[2]] # ""

\* Command.update_transalted_status_of_updated_blocks (S.log holds _UPDATED_BLOCKS)
update_transalted_status_of_updated_blocks(S) ==
    [S EXCEPT !.blocks = [b \in DOMAIN @ |->
        IF b \in DOMAIN S.log
        THEN [@[b] EXCEPT !.translated = is_block_translated(S, b)]
        ELSE @[b]]]

\* Command.handle with --commit; responses gives the service's answer for
\* each requested source block
sync_translated_strings_to_edx_from_meta(S, responses, today) ==
    LET data_dict == _get_request_data_dict(S, today)
    IN IF data_dict = NoMap THEN S
       ELSE Bind(_update_response_translations_in_db(
                     S, data_dict, DOMAIN data_dict, responses, today),
                 LAMBDA S1 : update_transalted_status_of_updated_blocks(S1))

\* Command.async_fetch_data_from_wiki_meta and the rest of handle, when the
\* fetches of the source blocks in raised end with an exception of the HTTP
\* session: asyncio.gather lets the first exception through and no answer
\* of the run is processed
async_fetch_data_from_wiki_meta(S, responses, raised, today) ==
    LET data_dict == _get_request_data_dict(S, today)
    IN IF raised \cap DOMAIN data_dict # {}
       THEN Raise(S, "ClientError", CHOOSE sb \in raised \cap DOMAIN data_dict : TRUE)
       ELSE sync_translated_strings_to_edx_from_meta(S, responses, today)

\* settings.WIKI_META_API_GET_REQUEST_SYNC_LIMIT
WIKI_META_API_GET_REQUEST_SYNC_LIMIT == 3

\* Command._get_tasks_to_fetch_data_from_wiki_meta: one fetch for each source
\* block of the dict and each language of its targets (the rerun has one)
_get_tasks_to_fetch_data_from_wiki_meta(data_dict) == RequestOrder(DOMAIN data_dict)

\* Variant: all the tasks are gathered at once.
_request_meta_tasks_in_parallel_all_at_once(tasks, index, limit) ==
    {i \in DOMAIN tasks : index < i}

\* Command._request_meta_tasks_in_parallel: the sub_tasks gathered together,
\* tasks[index:index+limit]
_request_meta_tasks_in_parallel(tasks, index, limit) ==
    {i \in DOMAIN tasks : index < i /\ i <= index + limit}

\* The records the service returns for one key in the exploration
ResponseRecords ==
    {[status |-> "translated", revision |-> 1, translation |-> "T1"],
     [status |-> "translated", revision |-> 1, translation |-> "T2"],
     [status |-> "proofread", revision |-> 2, translation |-> "T2"],
     [status |-> "fuzzy", revision |-> 2, translation |-> "T2"]}

\* the records of a service whose translators have not revised their work
FirstRecords == {r \in ResponseRecords : r.revision = 1 /\ r.translation = "T1"}

\* the keys of the message group of a source block, as the target block's
\* links see them
GroupKeys(S, target) ==
    UNION {UnitKeys(S, S.links[i].source) : i \in LinksOfTarget(S.links, target)}

\* MetaClient.create_update_message_group: an accepted request makes its
\* units the message group of the block
ServiceAfterPush(srv, data_list, outcome) ==
    LET succeeded == {b \in DOMAIN data_list : outcome[b] = "success"}
    IN [b \in (DOMAIN srv) \cup succeeded |->
          IF b \in succeeded THEN DOMAIN data_list[b] ELSE srv[b]]

\* MetaClient.sync_translations: no answer, or a record for some of the
\* messages of the block's group (those the command reads)
FetchResponses(S, target, group, records) ==
    {[ok |-> FALSE, data |-> NoMap]} \cup
    {[ok |-> TRUE, data |-> d] :
        d \in UNION {[K -> records] : K \in SUBSET (GroupKeys(S, target) \cap group)}}

\* the answers to all the fetches of one pull
PullResponses(S, srv, today, records) ==
    LET data_dict == _get_request_data_dict(S, today)
        answers(sb) == FetchResponses(S, data_dict[sb], MapGet(srv, sb, {}), records)
    IN IF data_dict = NoMap THEN {NoMap}
       ELSE {r \in [DOMAIN data_dict -> UNION {answers(sb) : sb \in DOMAIN data_dict}] :
                \A sb \in DOMAIN data_dict : r[sb] \in answers(sb)}

(***************************************************************************)
(* api/v0: approval of a block's translations.                             *)
(***************************************************************************)
\* CourseBlock.is_translations_approved
is_translations_approved(S, bid) ==
    \A i \in LinksOfTarget(S.links, bid) : S.links[i].approved

\* Variant: the snapshot holds the display name only.
get_snapshot_display_name_only(S, bid) ==
    LET ix == {i \in LinksOfTarget(S.links, bid) : S.links[i].source[2] = "display_name"}
    IN [dt \in {S.links[i].source[2] : i \in ix} |->
          S.links[CHOOSE i \in ix : S.links[i].source[2] = dt].translation]

\* CourseBlock.get_snapshot: data type -> translation of the block's mapping
get_snapshot(S, bid) ==
    LET ix == LinksOfTarget(S.links, bid)
    IN [dt \in {S.links[i].source[2] : i \in ix} |->
          S.links[CHOOSE i \in ix :
                     /\ S.links[i].source[2] = dt
                     /\ \A j \in ix : S.links[j].source[2] = dt => j <= i].translation]

\* CourseBlock.create_translated_version
create_translated_version(S, bid, user) ==
    [S EXCEPT !.versions[bid] = Append(@, [data |-> get_snapshot(S, bid), approved_by |-> user])]

\* COMPONENTS_CLASS_MAPPING[block_type]().update(block, data) raises: the
\* block is not in the modulestore, the content mapping is not unique, or
\* the transformer finds no element for an encoding
ComponentUpdateRaises(S, lv, bid, data) ==
    \/ bid[2] \notin DOMAIN lv[bid[1]]
    \/ /\ S.blocks[bid].block_type = "problem"
       /\ "content" \in DOMAIN data
       /\ LET ix == ExistingMapping(S, bid, "content")
          IN \/ Cardinality(ix) # 1
             \/ EncodingNotFound(S.items[S.links[MinOf(ix)].source].data, data["content"])

\* the text a flat translation carries (None when there is none)
FlatText(translation, data_type) ==
    IF data_type \in DOMAIN translation THEN translation[data_type] ELSE "None"

\* ModuleComponent.update / ProblemComponent.update: the modulestore after
\* the block took the version's data
ComponentUpdate(S, lv, bid, data) ==
    LET node == lv[bid[1]][bid[2]]
        named == IF "display_name" \in DOMAIN data
                 THEN [node EXCEPT !.display_name = FlatText(data["display_name"], "display_name")]
                 ELSE node
        source_xml_data == S.items[S.links[MinOf(ExistingMapping(S, bid, "content"))].source].data
        updated == IF S.blocks[bid].block_type = "problem" /\ "content" \in DOMAIN data
                   THEN [k \in (DOMAIN named) \cup {"content"} |->
                           IF k = "content"
                           THEN meta_data_to_raw_data(source_xml_data, data["content"])
                           ELSE named[k]]
                   ELSE named
    IN [lv EXCEPT ![bid[1]][bid[2]] = updated]

\* CourseBlockTranslationSerializer.update with approved = True, as made by
\* ApproveAPIView.update for one block; the result is the store and the
\* modulestore
CourseBlockTranslationSerializer_update(S, lv, bid, user) ==
    IF is_translations_approved(S, bid)
    THEN [store |-> Raise(S, "ValidationError", bid), live |-> lv]
    ELSE LET S1 == [S EXCEPT !.links = [i \in DOMAIN @ |->
                        IF @[i].target = bid
                        THEN [@[i] EXCEPT !.approved = TRUE, !.approved_by = user]
                        ELSE @[i]]]
             S2 == create_translated_version(S1, bid, user)
             version == Len(S2.versions[bid])
             data == S2.versions[bid][version].data
         IN IF ComponentUpdateRaises(S2, lv, bid, data)
            THEN [store |-> Raise(S2, "Exception", bid), live |-> lv]
            ELSE [store |-> [S2 EXCEPT !.blocks[bid].applied_translation = TRUE,
                                       !.blocks[bid].applied_version = version],
                  live |-> ComponentUpdate(S2, lv, bid, data)]

RECURSIVE ApproveAPIView_update(_, _, _, _, _)
\* ApproveAPIView.update: the loop over the blocks of the request, in the
\* order the queryset gives them; an exception ends the request
ApproveAPIView_update(S, lv, blocks_in_order, i, user) ==
    IF i > Len(blocks_in_order) \/ Failed(S) THEN [store |-> S, live |-> lv]
    ELSE Bind(CourseBlockTranslationSerializer_update(S, lv, blocks_in_order[i], user),
              LAMBDA r : ApproveAPIView_update(r.store, r.live, blocks_in_order, i + 1, user))

\* Variant: the version's block identifier is not compared.
_validate_block_data_no_block_check(S, bid, version) ==
    IF S.blocks[bid].applied_translation /\ version = <<bid, S.blocks[bid].applied_version>>
    THEN "Version is already applied"
    ELSE "none"

\* CourseBlockVersionSerializer._validate_block_data: the message of the
\* ValidationError it raises, "none" when it returns True.  A version is the
\* pair of its block_id and its position among the versions of that block.
_validate_block_data(S, bid, version) ==
    IF S.blocks[bid].applied_translation /\ version = <<bid, S.blocks[bid].applied_version>>
    THEN "Version is already applied"
    ELSE IF bid # version[1] THEN "Invalid applied version" ELSE "none"

\* CourseBlockVersionSerializer.update; the result is the store and the
\* modulestore
CourseBlockVersionSerializer_update(S, lv, bid, version) ==
    LET invalid == _validate_block_data(S, bid, version)
        data == S.versions[version[1]][version[2]].data
    IN IF invalid # "none"
       THEN [store |-> Raise(S, invalid, bid), live |-> lv]
       ELSE IF ComponentUpdateRaises(S, lv, version[1], data)
            THEN [store |-> Raise(S, "Exception", bid), live |-> lv]
            ELSE [store |-> [S EXCEPT !.blocks[bid].applied_translation = TRUE,
                                      !.blocks[bid].applied_version = version[2]],
                  live |-> ComponentUpdate(S, lv, version[1], data)]

(***************************************************************************)
(* wiki_components.py: the hook run when an author saves a base block.     *)
(***************************************************************************)
\* the fields of updated_xblock_data that differ from the stored xblock
UpdatedFields(lv, bid, updated_xblock_data) ==
    {k \in DOMAIN updated_xblock_data : updated_xblock_data[k] # lv[bid[1]][bid[2]][k]}

RECURSIVE UpdateBaseFields(_, _, _, _)
UpdateBaseFields(S, bid, updated_xblock_data, ks) ==
    IF ks = {} THEN S
    ELSE LET k == CHOOSE x \in ks : \A y \in ks : x = "display_name" \/ y # "display_name"
         IN UpdateBaseFields(update_base_block_data(S, <<bid, k>>, updated_xblock_data[k]),
                             bid, updated_xblock_data, ks \ {k})

\* WikiComponent.sync_base_block_data_to_translated_blocks: the raw base
\* values are written into every block mapped to the base block
sync_base_block_data_to_translated_blocks(S, lv, bid, updated_data) ==
    LET related == {S.links[i].target : i \in LinksOfSourceBlock(S.links, bid)}
    IN [c \in DOMAIN lv |->
          [n \in DOMAIN lv[c] |->
              IF <<c, n>> \in related
              THEN [k \in DOMAIN lv[c][n] |->
                      IF k \in DOMAIN updated_data THEN updated_data[k] ELSE lv[c][n][k]]
              ELSE lv[c][n]]]

\* ModuleComponent / ProblemComponent .check_and_sync_base_block_data; the
\* result is the store and the modulestore
check_and_sync_base_block_data(S, lv, bid, updated_xblock_data) ==
    LET ks == UpdatedFields(lv, bid, updated_xblock_data)
        updated_data == [k \in ks |-> updated_xblock_data[k]]
    IN [store |-> UpdateBaseFields(S, bid, updated_xblock_data, ks),
        live |-> sync_base_block_data_to_translated_blocks(S, lv, bid, updated_data)]

(***************************************************************************)
(* management/commands/apply_wiki_parsing_changes.py                       *)
(***************************************************************************)
\* Command._are_parsed_keys_changed
_are_parsed_keys_changed(old_parsed_keys, new_parsed_keys) ==
    DOMAIN old_parsed_keys # DOMAIN new_parsed_keys

\* the CourseBlockData the command updates: problem content whose stored
\* parsed keys differ from the keys of the block's current document
ParsingChanged(S, lv) ==
    {it \in DOMAIN S.items :
        /\ S.blocks[it[1]].block_type = "problem" /\ it[2] = "content"
        /\ it[1][2] \in DOMAIN lv[it[1][1]]
        /\ "content" \in DOMAIN lv[it[1][1]][it[1][2]]
        /\ _are_parsed_keys_changed(S.items[it].parsed_keys,
                                    raw_data_to_meta_data(lv[it[1][1]][it[1][2]]["content"]))}

\* Command._update_base_course_blocks_data
_update_base_course_blocks_data(S, lv) ==
    [S EXCEPT !.items = [it \in DOMAIN @ |->
        IF it \in ParsingChanged(S, lv)
        THEN [@[it] EXCEPT !.data = lv[it[1][1]][it[1][2]]["content"],
                           !.parsed_keys = raw_data_to_meta_data(lv[it[1][1]][it[1][2]]["content"]),
                           !.content_updated = TRUE]
        ELSE @[it]]]

\* Command._unset_old_translations
_unset_old_translations(S, updated_course_blocks_data) ==
    LET target_block_ids ==
            {S.links[i].target : i \in {j \in DOMAIN S.links :
                                          S.links[j].source \in updated_course_blocks_data}}
    IN [S EXCEPT
          !.links = [i \in DOMAIN @ |->
                       IF @[i].target \in target_block_ids
                       THEN [@[i] EXCEPT !.approved = FALSE, !.approved_by = NoUser]
                       ELSE @[i]],
          !.blocks = [b \in DOMAIN @ |->
                       IF b \in target_block_ids
                       THEN [@[b] EXCEPT !.translated = FALSE, !.applied_version = NoVersion,
                                         !.applied_translation = FALSE]
                       ELSE @[b]],
          !.versions = [b \in DOMAIN @ |-> IF b \in target_block_ids THEN <<>> ELSE @[b]]]

(***************************************************************************)
(* Actions.                                                                *)
(***************************************************************************)
\* Command.update_info of the push command: a row with sent_date = now and
\* the fetched_date of the latest row
update_info_sent(info, today) ==
    [sent_date |-> today,
     fetched_date |-> IF info = NoMap THEN NoDate ELSE info.fetched_date]

\* Command.update_info of the pull command
update_info_fetched(info, today) ==
    [fetched_date |-> today,
     sent_date |-> IF info = NoMap THEN NoDate ELSE info.sent_date]

StoreNow == Store(blocks, items, links, versions)

Commit(S) ==
    /\ blocks' = S.blocks
    /\ items' = S.items
    /\ links' = S.links
    /\ versions' = S.versions

Op(name, arg, S) == [name |-> name, arg |-> arg, err |-> S.err, log |-> S.log]

\* The data dict a node of the given name can carry when it is authored
NodeDatas(n) ==
    CASE n = "b" -> {[display_name |-> "Hi", content |-> P1]}
      [] n = "xb" -> {[display_name |-> "Hello"]}
      [] OTHER -> [display_name : DisplayNames]

\* the content of the nodes the base course starts with
InitialData(n) == [display_name |-> IF n = "a" THEN "Hello" ELSE "Hi"]

BaseNames == {"a", "c", "b", "xb"}

Init ==
    /\ live = [c \in Courses |->
                 IF c = BaseCourse THEN [n \in {"a", "c"} |-> InitialData(n)] ELSE NoMap]
    /\ course_translations = {}
    /\ blocks = NoMap
    /\ items = NoMap
    /\ links = <<>>
    /\ versions = [b \in BlockIds |-> <<>>]
    /\ now = 0
    /\ service = NoMap
    /\ runs = NoMap
    /\ cron_job_info = NoMap
    /\ lastOp = Op("init", NoBlock, StoreNow)

\* The author adds a node to the base outline (no hook of this package runs).
AddBaseNode ==
    \E n \in BaseNames \ DOMAIN live[BaseCourse] : \E d \in NodeDatas(n) :
        /\ <<BaseCourse, n>> \notin DOMAIN blocks
        /\ OutlineParent(BaseCourse, n)[2] \in DOMAIN live[BaseCourse]
        /\ live' = [live EXCEPT ![BaseCourse] = MapPut(@, n, d)]
        /\ lastOp' = Op("add_base_node", <<BaseCourse, n>>, StoreNow)
        /\ UNCHANGED <<cron_job_info, runs, course_translations, blocks, items, links, versions, now, service>>

\* utils.rerun_course_translated: the platform copies the base outline into the
\* rerun, the linkage row is created and the first mapping run is made.
RerunCourseTranslated ==
    /\ live[RerunCourse] = NoMap
    /\ course_translations = {}
    /\ LET lv == [live EXCEPT ![RerunCourse] = live[BaseCourse]]
           ct == {[course_id |-> RerunCourse, base_course_id |-> BaseCourse, outdated |-> FALSE]}
           S == course_blocks_mapping(StoreNow, lv, ct, RerunCourse)
       IN /\ live' = lv
          /\ course_translations' = ct
          /\ Commit(S)
          /\ lastOp' = Op("rerun", <<RerunCourse, "a">>, S)
    /\ UNCHANGED <<cron_job_info, runs, now, service>>

\* views.course_blocks_mapping_view
CourseBlocksMappingView ==
    \E c \in Courses :
        /\ \E r \in course_translations : c \in {r.course_id, r.base_course_id}
        /\ LET S == course_blocks_mapping(StoreNow, live, course_translations, c)
           IN /\ Commit(S)
              /\ lastOp' = Op("mapping", <<c, "a">>, S)
        /\ UNCHANGED <<cron_job_info, runs, live, course_translations, now, service>>

\* The translator adds the node "n" to the rerun outline or removes a node.
EditRerunOutline ==
    /\ live[RerunCourse] # NoMap
    /\ \/ \E d \in NodeDatas("n") :
            /\ "n" \notin DOMAIN live[RerunCourse]
            /\ "c" \in DOMAIN live[RerunCourse]
            /\ live' = [live EXCEPT ![RerunCourse] = MapPut(@, "n", d)]
       \/ \E n \in (DOMAIN live[RerunCourse]) \ {"a"} :
            live' = [live EXCEPT ![RerunCourse] = MapRemove(@, Subtree(n))]
    /\ lastOp' = Op("edit_rerun_outline", NoBlock, StoreNow)
    /\ UNCHANGED <<cron_job_info, runs, course_translations, blocks, items, links, versions, now, service>>

\* the blocks whose direction the translator toggles in the exploration
ToggleBlocks == {<<RerunCourse, "c">>}

\* views.update_block_direction_flag
UpdateBlockDirectionFlag ==
    \E locator \in DOMAIN blocks \cap ToggleBlocks : \E destination_flag \in BOOLEAN :
        /\ LET S == update_block_direction_flag(StoreNow, locator, destination_flag)
           IN /\ Commit(S)
              /\ lastOp' = Op(IF destination_flag THEN "to_destination" ELSE "to_source",
                              locator, S)
        /\ UNCHANGED <<cron_job_info, runs, live, course_translations, now, service>>

\* The author deletes a node of the base outline; the platform calls
\* utils.handle_base_course_block_deletion before the node disappears.
DeleteBaseNode ==
    \E n \in (DOMAIN live[BaseCourse]) \ {"a"} :
        /\ LET children_ids == {<<BaseCourse, m>> : m \in Subtree(n) \cap DOMAIN live[BaseCourse]}
               S == handle_base_course_block_deletion(StoreNow, children_ids)
           IN /\ Commit(S)
              /\ lastOp' = Op("delete_base_node", <<BaseCourse, n>>, S)
        /\ live' = [live EXCEPT ![BaseCourse] = MapRemove(@, Subtree(n))]
        /\ UNCHANGED <<cron_job_info, runs, course_translations, now, service>>

NextMap ==
    \/ AddBaseNode
    \/ RerunCourseTranslated
    \/ CourseBlocksMappingView
    \/ EditRerunOutline
    \/ UpdateBlockDirectionFlag
    \/ DeleteBaseNode

SpecMap == Init /\ [][NextMap]_vars

(***************************************************************************)
(* The synchronisation with the translation service, explored from the     *)
(* state a translated rerun of the outline a -> c -> b is left in.         *)
(***************************************************************************)
SyncOutline == [n \in {"a", "c", "b"} |->
                  IF n = "b" THEN [display_name |-> "Hi", content |-> P1] ELSE InitialData(n)]
SyncLive == [c \in Courses |-> IF c = SecondRerun THEN NoMap ELSE SyncOutline]
SyncCourseTranslations ==
    {[course_id |-> RerunCourse, base_course_id |-> BaseCourse, outdated |-> FALSE]}

\* the blocks of the rerun the translator keeps as his own (direction Source)
KeptAsSource == <<<<RerunCourse, "a">>, <<RerunCourse, "c">>>>

RECURSIVE ToggleToSource(_, _)
ToggleToSource(S, i) ==
    IF i > Len(KeptAsSource) THEN S
    ELSE Bind(update_block_direction_flag(S, KeptAsSource[i], FALSE),
              LAMBDA T : ToggleToSource(T, i + 1))

\* utils.rerun_course_translated on the outline, then the toggles
SyncStore ==
    Bind(course_blocks_mapping(Store(NoMap, NoMap, <<>>, [b \in BlockIds |-> <<>>]),
                               SyncLive, SyncCourseTranslations, RerunCourse),
         LAMBDA S : ToggleToSource(S, 1))

\* the state that holds the rows of S, with the message groups srv
InitWith(S, srv, info) ==
    /\ live = SyncLive
    /\ course_translations = SyncCourseTranslations
    /\ blocks = S.blocks
    /\ items = S.items
    /\ links = S.links
    /\ versions = S.versions
    /\ now = 0
    /\ service = srv
    /\ runs = NoMap
    /\ cron_job_info = info
    /\ lastOp = [name |-> "init", arg |-> NoBlock, err |-> NoError, log |-> NoMap]

SyncInit == \E S \in {SyncStore} : InitWith(S, NoMap, NoMap)

\* the base blocks the author edits and the values he gives them
EditedBlocks == {"b"}
EditedData(n) == {[live[BaseCourse][n] EXCEPT !.content = x] : x \in ProblemXml}

\* The author saves a base block in the editor: the platform calls the
\* component's check_and_sync_base_block_data, then stores the block.
SaveBaseBlock ==
    \E n \in EditedBlocks \cap DOMAIN live[BaseCourse] : \E d \in EditedData(n) :
        /\ d # live[BaseCourse][n]
        /\ LET r == check_and_sync_base_block_data(StoreNow, live, <<BaseCourse, n>>, d)
           IN /\ Commit(r.store)
              /\ live' = [r.live EXCEPT ![BaseCourse][n] = d]
              /\ lastOp' = Op("save_base_block", <<BaseCourse, n>>, r.store)
        /\ UNCHANGED <<cron_job_info, runs, course_translations, now, service>>

\* The base block changes in the modulestore without the hook (an import).
ImportBaseBlock ==
    \E n \in EditedBlocks \cap DOMAIN live[BaseCourse] : \E d \in EditedData(n) :
        /\ d # live[BaseCourse][n]
        /\ live' = [live EXCEPT ![BaseCourse][n] = d]
        /\ lastOp' = Op("import_base_block", <<BaseCourse, n>>, StoreNow)
        /\ UNCHANGED <<cron_job_info, runs, course_translations, blocks, items, links, versions, now, service>>

\* ./manage.py cms sync_untranslated_strings_to_meta_from_edx --commit
Push ==
    LET data_list == _get_request_data_list(StoreNow, course_translations)
    IN \E outcome \in PushOutcomes(data_list) :
        LET S == sync_untranslated_strings_to_meta_from_edx(StoreNow, course_translations, outcome)
        IN /\ Commit(S)
           /\ service' = ServiceAfterPush(service, data_list, outcome)
           /\ lastOp' = [name |-> "push", arg |-> outcome, err |-> S.err,
                         log |-> [data_list |-> data_list,
                                  dirty |-> {it \in DOMAIN items :
                                               \/ items[it].content_updated
                                               \/ items[it].mapping_updated}]]
           /\ cron_job_info' = IF Failed(S) THEN cron_job_info
                               ELSE update_info_sent(cron_job_info, now)
           /\ UNCHANGED <<runs, live, course_translations, now>>

\* ./manage.py cms sync_translated_strings_to_edx_from_meta --commit
Pull ==
    \E responses \in PullResponses(StoreNow, service, now, FirstRecords) :
        LET S == sync_translated_strings_to_edx_from_meta(StoreNow, responses, now)
        IN /\ Commit(S)
           /\ lastOp' = [name |-> "pull", arg |-> NoMap, err |-> S.err, log |-> NoMap]
           /\ cron_job_info' = IF Failed(S) THEN cron_job_info
                               ELSE update_info_fetched(cron_job_info, now)
           /\ UNCHANGED <<runs, live, course_translations, now, service>>

\* The same run against a service whose translators revise their work, with
\* the request, the answers and the revisions stored before kept for
\* observation.
PullObserved ==
    \E responses \in PullResponses(StoreNow, service, now, ResponseRecords) :
        LET S == sync_translated_strings_to_edx_from_meta(StoreNow, responses, now)
        IN /\ Commit(S)
           /\ lastOp' = [name |-> "pull", arg |-> responses, err |-> S.err,
                         log |-> [data_dict |-> _get_request_data_dict(StoreNow, now),
                                  commits |-> [i \in DOMAIN links |-> links[i].fetched_commits],
                                  approved |-> [i \in DOMAIN links |-> links[i].approved]]]
           /\ cron_job_info' = IF Failed(S) THEN cron_job_info
                               ELSE update_info_fetched(cron_job_info, now)
           /\ UNCHANGED <<runs, live, course_translations, now, service>>

\* the blocks the reviewer approves in the exploration
ApprovedBlocks == {<<RerunCourse, "b">>}

\* ApproveAPIView.update for one block whose mappings all hold a translation
Approve ==
    \E bid \in ApprovedBlocks \cap DOMAIN blocks : \E user \in Users :
        /\ \A i \in LinksOfTarget(links, bid) : links[i].translation # NoMap
        /\ Len(versions[bid]) < MaxVersions
        /\ LET r == CourseBlockTranslationSerializer_update(StoreNow, live, bid, user)
           IN /\ Commit(r.store)
              /\ live' = r.live
              /\ lastOp' = Op("approve", bid, r.store)
        /\ UNCHANGED <<cron_job_info, runs, course_translations, now, service>>

\* ./manage.py cms apply_wiki_parsing_changes: the update of the parsed keys,
\* the reset of the targets, then the push and the pull it calls
ApplyWikiParsingChanges ==
    \E updated \in {ParsingChanged(StoreNow, live)} :
      IF updated = {}
      THEN /\ lastOp' = [name |-> "parsing_changes", arg |-> NoMap, err |-> NoError,
                         log |-> [updated |-> updated, pushed |-> NoMap, fetched |-> {}]]
           /\ UNCHANGED <<cron_job_info, runs, live, course_translations, blocks, items, links, versions, now, service>>
      ELSE \E S2 \in {_unset_old_translations(
                          _update_base_course_blocks_data(StoreNow, live), updated)} :
           \E data_list \in {_get_request_data_list(S2, course_translations)} :
           \E outcome \in PushOutcomes(data_list) :
           \E S3 \in {sync_untranslated_strings_to_meta_from_edx(S2, course_translations, outcome)} :
           \E srv \in {ServiceAfterPush(service, data_list, outcome)} :
           \E responses \in PullResponses(S3, srv, now, FirstRecords) :
           \E S4 \in {sync_translated_strings_to_edx_from_meta(S3, responses, now)} :
              /\ Commit(S4)
              /\ service' = srv
              /\ lastOp' = [name |-> "parsing_changes", arg |-> NoMap, err |-> S4.err,
                            log |-> [updated |-> updated, pushed |-> outcome,
                                     fetched |-> DOMAIN S4.log]]
              /\ cron_job_info' =
                    IF Failed(S3) THEN cron_job_info
                    ELSE IF Failed(S4) THEN update_info_sent(cron_job_info, now)
                    ELSE update_info_fetched(update_info_sent(cron_job_info, now), now)
              /\ UNCHANGED <<runs, live, course_translations, now>>

\* A day passes.
Tick ==
    /\ now < MaxDay
    /\ now' = now + 1
    /\ lastOp' = Op("tick", NoBlock, StoreNow)
    /\ UNCHANGED <<cron_job_info, runs, live, course_translations, blocks, items, links, versions, service>>

\* the rerun blocks whose direction is toggled between pushes
ToggledBlocks == {<<RerunCourse, n>> : n \in {"a", "c", "b"}}

\* the items that wait for a push
FlaggedItems(its) ==
    {it \in DOMAIN its : its[it].content_updated \/ its[it].mapping_updated}

\* views.update_block_direction_flag, with the flags and the languages of the
\* state before kept for observation
ToggleDirection ==
    \E locator \in DOMAIN blocks \cap ToggledBlocks : \E destination_flag \in BOOLEAN :
        /\ LET S == update_block_direction_flag(StoreNow, locator, destination_flag)
           IN /\ Commit(S)
              /\ lastOp' = [name |-> IF destination_flag THEN "to_destination" ELSE "to_source",
                            arg |-> locator, err |-> S.err,
                            log |-> [dirty |-> FlaggedItems(items),
                                     lang |-> [b \in DOMAIN blocks |-> blocks[b].lang]]]
        /\ UNCHANGED <<cron_job_info, runs, live, course_translations, now, service>>

\* Bound of the exploration: the versions a block gets
MaxApprovals == 2

\* the blocks the reviewer approves and rolls back
ReviewedBlocks == {<<RerunCourse, "c">>, <<RerunCourse, "b">>}

\* ApproveAPIView.update for one block, with the block's state before kept
\* for observation
ApproveBlock ==
    \E bid \in ReviewedBlocks \cap DOMAIN blocks : \E user \in Users :
        /\ Len(versions[bid]) < MaxApprovals
        /\ LET r == CourseBlockTranslationSerializer_update(StoreNow, live, bid, user)
           IN /\ Commit(r.store)
              /\ live' = r.live
              /\ lastOp' = [name |-> "approve", arg |-> bid, err |-> r.store.err,
                            log |-> [user |-> user,
                                     translated |-> is_block_translated(StoreNow, bid),
                                     approved |-> is_translations_approved(StoreNow, bid)]]
        /\ UNCHANGED <<cron_job_info, runs, course_translations, now, service>>

\* CouseBlockVersionUpdateView: PUT apply_translated_version/<block_id> with
\* the id of a stored version
ApplyVersion ==
    \E bid \in ReviewedBlocks \cap DOMAIN blocks :
    \E vb \in ReviewedBlocks : \E n \in 1..Len(versions[vb]) :
        /\ LET r == CourseBlockVersionSerializer_update(StoreNow, live, bid, <<vb, n>>)
           IN /\ Commit(r.store)
              /\ live' = r.live
              /\ lastOp' = [name |-> "apply_version", arg |-> bid, err |-> r.store.err,
                            log |-> [version |-> <<vb, n>>]]
        /\ UNCHANGED <<cron_job_info, runs, course_translations, now, service>>

\* ./manage.py cms sync_untranslated_strings_to_meta_from_edx --commit, with
\* the outcomes of the session's requests and of each edit request
PushOverNetwork ==
    \E data_list \in {_get_request_data_list(StoreNow, course_translations)} :
    \E session \in Sessions : \E outcome \in TransportOutcomes(data_list) :
        /\ data_list # NoMap
        /\ \E r \in {async_update_data_on_wiki_meta(StoreNow, data_list, session, outcome)} :
              /\ Commit(r.store)
              /\ service' = ServiceAfterPush(service, data_list,
                                [b \in DOMAIN data_list |->
                                    IF b \in r.accepted THEN "success" ELSE "failure"])
              /\ lastOp' = [name |-> "push", arg |-> outcome, err |-> r.store.err,
                            log |-> [data_list |-> data_list, session |-> session,
                                     sent |-> r.sent]]
              /\ cron_job_info' = IF Failed(r.store) THEN cron_job_info
                                  ELSE update_info_sent(cron_job_info, now)
        /\ UNCHANGED <<runs, live, course_translations, now>>

\* ./manage.py cms sync_translated_strings_to_edx_from_meta --commit, with
\* the fetches that end with an exception of the HTTP session
PullOverNetwork ==
    \E data_dict \in {_get_request_data_dict(StoreNow, now)} :
    \E responses \in PullResponses(StoreNow, service, now, FirstRecords) :
    \E raised \in SUBSET DOMAIN data_dict :
        /\ data_dict # NoMap
        /\ \E S \in {async_fetch_data_from_wiki_meta(StoreNow, responses, raised, now)} :
              /\ Commit(S)
              /\ lastOp' = [name |-> "pull", arg |-> responses, err |-> S.err,
                            log |-> [data_dict |-> data_dict, raised |-> raised]]
              /\ cron_job_info' = IF Failed(S) THEN cron_job_info
                                  ELSE update_info_fetched(cron_job_info, now)
        /\ UNCHANGED <<runs, live, course_translations, now, service>>

\* ./manage.py cms sync_translated_strings_to_edx_from_meta --commit, step by
\* step: handle builds the dict and the tasks; the limit is the site's
\* WIKI_META_API_GET_REQUEST_SYNC_LIMIT
PullStart ==
    \E data_dict \in {_get_request_data_dict(StoreNow, now)} :
    \E limit \in 1..WIKI_META_API_GET_REQUEST_SYNC_LIMIT :
        /\ "pull" \notin DOMAIN runs
        /\ data_dict # NoMap
        /\ runs' = MapPut(runs, "pull",
                      [data_dict |-> data_dict,
                       tasks |-> _get_tasks_to_fetch_data_from_wiki_meta(data_dict),
                       limit |-> limit, index |-> 0,
                       issued |-> {}, in_flight |-> {}, responses |-> NoMap])
        /\ lastOp' = [name |-> "pull_start", arg |-> limit, err |-> NoError, log |-> NoMap]
        /\ UNCHANGED <<cron_job_info, live, course_translations, blocks, items, links, versions, now, service>>

\* a coroutine of the gathered sub_tasks sends its request
FetchSend ==
    /\ "pull" \in DOMAIN runs
    /\ \E run \in {runs["pull"]} :
       \E i \in _request_meta_tasks_in_parallel(run.tasks, run.index, run.limit) \ run.issued :
          /\ runs' = MapPut(runs, "pull",
                        [run EXCEPT !.issued = @ \cup {i}, !.in_flight = @ \cup {i}])
          /\ lastOp' = [name |-> "fetch_send", arg |-> run.tasks[i], err |-> NoError,
                        log |-> NoMap]
    /\ UNCHANGED <<cron_job_info, live, course_translations, blocks, items, links, versions, now, service>>

\* the answer to a request arrives; asyncio.gather returns with the last
\* answer of the sub_tasks and the loop moves to the next slice
FetchReceive ==
    /\ "pull" \in DOMAIN runs
    /\ \E run \in {runs["pull"]} : \E i \in run.in_flight :
       \E response \in FetchResponses(StoreNow, run.data_dict[run.tasks[i]],
                                      MapGet(service, run.tasks[i], {}), FirstRecords) :
          LET responses == MapPut(run.responses, run.tasks[i], response)
              sub_tasks == _request_meta_tasks_in_parallel(run.tasks, run.index, run.limit)
              gathered == \A j \in sub_tasks : run.tasks[j] \in DOMAIN responses
          IN /\ runs' = MapPut(runs, "pull",
                           [run EXCEPT !.in_flight = @ \ {i},
                                       !.responses = responses,
                                       !.index = IF gathered THEN @ + run.limit ELSE @])
             /\ lastOp' = [name |-> "fetch_receive", arg |-> run.tasks[i], err |-> NoError,
                           log |-> NoMap]
    /\ UNCHANGED <<cron_job_info, live, course_translations, blocks, items, links, versions, now, service>>

\* all the slices are gathered: the answers are processed and the run ends
PullFinish ==
    /\ "pull" \in DOMAIN runs
    /\ \E run \in {runs["pull"]} :
          /\ run.index >= Len(run.tasks)
          /\ \E S \in {Bind(_update_response_translations_in_db(
                                StoreNow, run.data_dict, DOMAIN run.data_dict,
                                run.responses, now),
                            LAMBDA S1 : update_transalted_status_of_updated_blocks(S1))} :
                /\ Commit(S)
                /\ lastOp' = [name |-> "pull", arg |-> run.responses, err |-> S.err,
                              log |-> NoMap]
                /\ cron_job_info' = IF Failed(S) THEN cron_job_info
                                    ELSE update_info_fetched(cron_job_info, now)
    /\ runs' = MapRemove(runs, {"pull"})
    /\ UNCHANGED <<live, course_translations, now, service>>

\* the seconds a request takes in the exploration: less than the delay, the
\* delay, more than the delay
ExecutionTimes == {10, 20, 30}

\* ./manage.py cms sync_untranslated_strings_to_meta_from_edx --commit, step
\* by step, in a session that was opened: handle builds the list and the
\* tasks; time is the clock of the run
PushStart ==
    \E data_list \in {_get_request_data_list(StoreNow, course_translations)} :
        /\ "push" \notin DOMAIN runs
        /\ data_list # NoMap
        /\ runs' = MapPut(runs, "push",
                      [data_list |-> data_list,
                       tasks |-> RequestOrder(DOMAIN data_list),
                       index |-> 1, awaiting |-> FALSE, time |-> 0,
                       start_time |-> <<>>, end_time |-> <<>>, slept |-> <<>>,
                       responses |-> <<>>])
        /\ lastOp' = [name |-> "push_start", arg |-> NoMap, err |-> NoError, log |-> NoMap]
        /\ UNCHANGED <<cron_job_info, live, course_translations, blocks, items, links, versions, now, service>>

\* response = await tasks[index]: the coroutine starts and sends its request
RequestSend ==
    /\ "push" \in DOMAIN runs
    /\ \E run \in {runs["push"]} :
          /\ ~run.awaiting
          /\ run.index <= Len(run.tasks)
          /\ runs' = MapPut(runs, "push",
                        [run EXCEPT !.awaiting = TRUE,
                                    !.start_time = Append(@, run.time)])
          /\ lastOp' = [name |-> "request_send", arg |-> run.tasks[run.index],
                        err |-> NoError, log |-> NoMap]
    /\ UNCHANGED <<cron_job_info, live, course_translations, blocks, items, links, versions, now, service>>

\* the response arrives after execution_time seconds; the loop sleeps and
\* moves to the next task
RequestReceive ==
    /\ "push" \in DOMAIN runs
    /\ \E run \in {runs["push"]} :
       \E execution_time \in ExecutionTimes : \E response \in {"success", "failure"} :
          LET b == run.tasks[run.index]
              end_time == run.time + execution_time
              sleep == IF run.index # Len(run.tasks)
                       THEN delay(WIKI_META_API_REQUEST_DELAY_IN_SECONDS, execution_time)
                       ELSE 0
          IN /\ run.awaiting
             /\ runs' = MapPut(runs, "push",
                           [run EXCEPT !.awaiting = FALSE,
                                       !.index = @ + 1,
                                       !.time = end_time + sleep,
                                       !.end_time = Append(@, end_time),
                                       !.slept = Append(@, sleep),
                                       !.responses = Append(@, response)])
             /\ service' = ServiceAfterPush(service, run.data_list,
                               [x \in DOMAIN run.data_list |->
                                   IF x = b THEN response ELSE "failure"])
             /\ lastOp' = [name |-> "request_receive", arg |-> b, err |-> NoError,
                           log |-> NoMap]
    /\ UNCHANGED <<cron_job_info, live, course_translations, blocks, items, links, versions, now>>

\* the last response is in: the flags are reset and the run ends
PushFinish ==
    /\ "push" \in DOMAIN runs
    /\ \E run \in {runs["push"]} :
          /\ run.index > Len(run.tasks)
          /\ \E S \in {_reset_mapping_updated_and_content_updated(
                            StoreNow, {run.tasks[i] : i \in {j \in DOMAIN run.tasks :
                                                               run.responses[j] = "success"}})} :
                /\ Commit(S)
                /\ lastOp' = [name |-> "push", arg |-> run.responses, err |-> S.err,
                              log |-> NoMap]
                /\ cron_job_info' = IF Failed(S) THEN cron_job_info
                                    ELSE update_info_sent(cron_job_info, now)
    /\ runs' = MapRemove(runs, {"push"})
    /\ UNCHANGED <<live, course_translations, now, service>>

\* the requests to views.course_blocks_mapping_view that can be served at
\* the same time
MappingRuns == {"mapping1", "mapping2"}

\* views.course_blocks_mapping_view for the rerun: course_blocks_mapping
\* finds the linkage and reads the outline of the base course
MappingStart ==
    \E r \in MappingRuns \ DOMAIN runs : \E ct \in course_translations :
        /\ runs' = MapPut(runs, r,
                      [course_key |-> ct.course_id, base_course_key |-> ct.base_course_id,
                       mapped |-> ct.base_course_id,
                       outline |-> get_recursive_blocks_data(live, ct.base_course_id),
                       index |-> 1])
        /\ lastOp' = [name |-> "mapping_start", arg |-> <<ct.course_id, "a">>,
                      err |-> NoError, log |-> NoMap]
        /\ UNCHANGED <<cron_job_info, live, course_translations, blocks, items, links, versions, now, service>>

\* one turn of the loop of check_and_map_course_blocks; an exception ends
\* the run
MappingStep ==
    \E r \in MappingRuns \cap DOMAIN runs : \E run \in {runs[r]} :
        /\ run.index <= Len(run.outline)
        /\ \E S \in {IF run.mapped = run.base_course_key
                      THEN map_base_course_block(StoreNow, run.outline[run.index])
                      ELSE map_translated_course_block(StoreNow, run.base_course_key,
                                                       run.outline[run.index])} :
              /\ Commit(S)
              /\ runs' = IF Failed(S) THEN MapRemove(runs, {r})
                         ELSE MapPut(runs, r, [run EXCEPT !.index = @ + 1])
              /\ lastOp' = [name |-> "mapping_step", arg |-> run.outline[run.index].usage_key,
                            err |-> S.err, log |-> NoMap]
        /\ UNCHANGED <<cron_job_info, live, course_translations, now, service>>

\* the end of check_and_map_course_blocks: after the base course the rerun
\* is mapped; after the rerun its blocks that left the outline are deleted
\* and the run ends
MappingFinish ==
    \E r \in MappingRuns \cap DOMAIN runs : \E run \in {runs[r]} :
        /\ run.index > Len(run.outline)
        /\ IF run.mapped = run.base_course_key
           THEN /\ runs' = MapPut(runs, r,
                              [run EXCEPT !.mapped = run.course_key,
                                          !.outline = get_recursive_blocks_data(
                                                          live, run.course_key),
                                          !.index = 1])
                /\ UNCHANGED <<blocks, items, links, versions>>
           ELSE /\ Commit(DeleteBlocks(StoreNow,
                             {b \in DOMAIN blocks : b[1] = run.course_key}
                               \ {run.outline[i].usage_key : i \in DOMAIN run.outline}))
                /\ runs' = MapRemove(runs, {r})
        /\ lastOp' = [name |-> "mapping_finish", arg |-> <<run.mapped, "a">>,
                      err |-> NoError, log |-> NoMap]
        /\ UNCHANGED <<cron_job_info, live, course_translations, now, service>>

\* the orders in which CourseBlock.objects.filter(block_id__in=block_ids),
\* a queryset without order_by, can give the blocks
QuerysetOrders(block_ids) ==
    {order \in UNION {[1..n -> block_ids] : n \in {Cardinality(block_ids)}} :
        \A b \in block_ids : \E i \in DOMAIN order : order[i] = b}

\* ApproveAPIView.update for the blocks of one request
ApproveBlocks ==
    \E block_ids \in (SUBSET (ReviewedBlocks \cap DOMAIN blocks)) \ {{}} :
    \E blocks_in_order \in QuerysetOrders(block_ids) : \E user \in Users :
        /\ \A bid \in block_ids : Len(versions[bid]) < MaxApprovals
        /\ \E r \in {ApproveAPIView_update(StoreNow, live, blocks_in_order, 1, user)} :
              /\ Commit(r.store)
              /\ live' = r.live
              /\ lastOp' = [name |-> "approve_blocks", arg |-> blocks_in_order,
                            err |-> r.store.err, log |-> NoMap]
        /\ UNCHANGED <<cron_job_info, runs, course_translations, now, service>>

\* the push and the pull, with edits of the base content in between
\* the languages a translated rerun is requested in
RerunLanguages == {"fr", "de"}

\* The rerun view with is_translated_rerun set: utils.validate_translated_rerun,
\* the platform copies the source course into a new course, then
\* utils.rerun_course_translated.
TranslatedRerunOfCourse ==
    \E source_course_key \in Courses : \E destination_course_key \in Courses :
    \E language \in RerunLanguages :
        /\ live[source_course_key] # NoMap
        /\ live[destination_course_key] = NoMap
        /\ \A b \in DOMAIN blocks : b[1] # destination_course_key
        /\ \A r \in course_translations :
               destination_course_key \notin {r.course_id, r.base_course_id}
        /\ CourseLanguage(destination_course_key) = language
        /\ validate_translated_rerun(live, course_translations, source_course_key, language)
        /\ LET lv == [live EXCEPT ![destination_course_key] = live[source_course_key]]
               ct == set_course_translation(course_translations, destination_course_key,
                                            source_course_key)
               S == course_blocks_mapping(StoreNow, lv, ct, destination_course_key)
           IN /\ live' = lv
              /\ course_translations' = ct
              /\ Commit(S)
              /\ lastOp' = Op("translated_rerun", <<destination_course_key, "a">>, S)
        /\ UNCHANGED <<cron_job_info, runs, now, service>>

\* A course is deleted in the platform, which calls
\* CourseTranslation.delete_base_or_translated_course before the course goes.
DeleteCourse ==
    \E course_id \in Courses :
        /\ live[course_id] # NoMap
        /\ LET r == delete_base_or_translated_course(StoreNow, course_translations, course_id)
           IN /\ Commit(r.store)
              /\ course_translations' = r.ct
              /\ lastOp' = Op("delete_course", <<course_id, "a">>, r.store)
        /\ live' = [live EXCEPT ![course_id] = NoMap]
        /\ UNCHANGED <<cron_job_info, runs, now, service>>

\* Command.handle of sync_untranslated_strings_to_meta_from_edx without the
\* test of options.get('commit')
PushCommand_handle_always_commit(S, ct, srv, info, today, commit, outcome) ==
    LET data_list == _get_request_data_list(S, ct)
    IN [store |-> sync_untranslated_strings_to_meta_from_edx(S, ct, outcome),
        service |-> IF data_list = NoMap THEN srv
                    ELSE ServiceAfterPush(srv, data_list, outcome),
        info |-> update_info_sent(info, today),
        requests |-> DOMAIN data_list,
        report |-> data_list]

\* Command.handle of sync_untranslated_strings_to_meta_from_edx: the store,
\* the service and the cron-job table after the run, the requests sent and
\* the list that is logged
PushCommand_handle(S, ct, srv, info, today, commit, outcome) ==
    LET data_list == _get_request_data_list(S, ct)
    IN IF commit
       THEN [store |-> sync_untranslated_strings_to_meta_from_edx(S, ct, outcome),
             service |-> IF data_list = NoMap THEN srv
                         ELSE ServiceAfterPush(srv, data_list, outcome),
             info |-> update_info_sent(info, today),
             requests |-> DOMAIN data_list,
             report |-> data_list]
       ELSE [store |-> S, service |-> srv, info |-> info, requests |-> {},
             report |-> data_list]

\* Command.handle of sync_translated_strings_to_edx_from_meta
PullCommand_handle(S, info, today, commit, responses) ==
    LET data_dict == _get_request_data_dict(S, today)
    IN IF commit
       THEN [store |-> sync_translated_strings_to_edx_from_meta(S, responses, today),
             info |-> update_info_fetched(info, today),
             requests |-> DOMAIN data_dict,
             report |-> data_dict]
       ELSE [store |-> S, info |-> info, requests |-> {}, report |-> data_dict]

\* the queryset of Command.handle of apply_approved_translations_to_course_blocks
translated_course_blocks(S) ==
    {b \in DOMAIN S.blocks :
        ~S.blocks[b].applied_translation /\ S.blocks[b].applied_version # NoVersion}

\* Command._get_json_data_from_translated_blocks
_get_json_data_from_translated_blocks(S, bs) ==
    [b \in bs |-> S.versions[b][S.blocks[b].applied_version].data]

RECURSIVE _update_blocks_data_to_database(_, _, _, _)
\* Command._update_blocks_data_to_database: the loop over the queryset; an
\* exception of a component ends the command
_update_blocks_data_to_database(S, lv, order, i) ==
    IF i > Len(order) \/ Failed(S) THEN [store |-> S, live |-> lv]
    ELSE LET bid == order[i]
             data == S.versions[bid][S.blocks[bid].applied_version].data
         IN IF ComponentUpdateRaises(S, lv, bid, data)
            THEN [store |-> Raise(S, "Exception", bid), live |-> lv]
            ELSE Bind([store |-> [S EXCEPT !.blocks[bid].applied_translation = TRUE],
                       live |-> ComponentUpdate(S, lv, bid, data)],
                      LAMBDA r : _update_blocks_data_to_database(r.store, r.live, order, i + 1))

\* Command.handle of apply_approved_translations_to_course_blocks
ApplyCommand_handle(S, lv, commit, order) ==
    IF commit
    THEN Bind(_update_blocks_data_to_database(S, lv, order, 1),
              LAMBDA r : [store |-> r.store, live |-> r.live,
                          report |-> Len(order)])
    ELSE [store |-> S, live |-> lv,
          report |-> _get_json_data_from_translated_blocks(S, translated_course_blocks(S))]

\* ./manage.py cms sync_untranslated_strings_to_meta_from_edx [--commit]
PushCommand ==
    \E commit \in BOOLEAN :
    \E data_list \in {_get_request_data_list(StoreNow, course_translations)} :
    \E outcome \in PushOutcomes(data_list) :
    \E r \in {PushCommand_handle(StoreNow, course_translations, service, cron_job_info,
                                 now, commit, outcome)} :
        /\ Commit(r.store)
        /\ service' = r.service
        /\ cron_job_info' = r.info
        /\ lastOp' = [name |-> "push_command", arg |-> commit, err |-> r.store.err,
                      log |-> [requests |-> r.requests, report |-> r.report]]
        /\ UNCHANGED <<runs, live, course_translations, now>>

\* ./manage.py cms sync_translated_strings_to_edx_from_meta [--commit]
PullCommand ==
    \E commit \in BOOLEAN :
    \E responses \in PullResponses(StoreNow, service, now, FirstRecords) :
    \E r \in {PullCommand_handle(StoreNow, cron_job_info, now, commit, responses)} :
        /\ Commit(r.store)
        /\ cron_job_info' = r.info
        /\ lastOp' = [name |-> "pull_command", arg |-> commit, err |-> r.store.err,
                      log |-> [requests |-> r.requests, report |-> r.report]]
        /\ UNCHANGED <<runs, live, course_translations, now, service>>

\* ./manage.py cms apply_approved_translations_to_course_blocks [--commit]
ApplyCommand ==
    \E commit \in BOOLEAN :
    \E order \in QuerysetOrders(translated_course_blocks(StoreNow)) :
    \E r \in {ApplyCommand_handle(StoreNow, live, commit, order)} :
        /\ Commit(r.store)
        /\ live' = r.live
        /\ lastOp' = [name |-> "apply_command", arg |-> commit, err |-> r.store.err,
                      log |-> [requests |-> {}, report |-> r.report]]
        /\ UNCHANGED <<cron_job_info, runs, course_translations, now, service>>

\* the records of a service on which a message can be saved as translated
\* with an empty text
BlankableRecords ==
    FirstRecords \cup {[status |-> "translated", revision |-> 1, translation |-> ""]}

\* ./manage.py cms sync_translated_strings_to_edx_from_meta --commit against
\* that service
PullBlankable ==
    \E responses \in PullResponses(StoreNow, service, now, BlankableRecords) :
        LET S == sync_translated_strings_to_edx_from_meta(StoreNow, responses, now)
        IN /\ Commit(S)
           /\ lastOp' = [name |-> "pull", arg |-> responses, err |-> S.err, log |-> NoMap]
           /\ cron_job_info' = IF Failed(S) THEN cron_job_info
                               ELSE update_info_fetched(cron_job_info, now)
           /\ UNCHANGED <<runs, live, course_translations, now, service>>

Next ==
    \/ SaveBaseBlock
    \/ Push
    \/ Pull

Spec == SyncInit /\ [][Next]_vars

\* the toggles of the direction, with pushes and pulls in between
NextToggle ==
    \/ ToggleDirection
    \/ Push
    \/ Pull

SpecToggle == SyncInit /\ [][NextToggle]_vars

\* the push and the pull over a network that fails
NextTransport ==
    \/ PushOverNetwork
    \/ PullOverNetwork

SpecTransport == SyncInit /\ [][NextTransport]_vars

\* the rerun mapped, every block of it translated from the base, and pushed
FanOutStore ==
    Bind(course_blocks_mapping(Store(NoMap, NoMap, <<>>, [b \in BlockIds |-> <<>>]),
                               SyncLive, SyncCourseTranslations, RerunCourse),
         LAMBDA S :
            sync_untranslated_strings_to_meta_from_edx(
                Store(S.blocks, S.items, S.links, S.versions), SyncCourseTranslations,
                [b \in DOMAIN _get_request_data_list(S, SyncCourseTranslations) |-> "success"]))

FanOutInit ==
    \E S \in {FanOutStore} :
    \E srv \in {[b \in {<<BaseCourse, n>> : n \in DOMAIN SyncOutline} |->
                    UNION {UnitKeys(S, it) : it \in ItemsOfBlock(S.items, b)}]} :
        InitWith(S, srv, update_info_sent(NoMap, 0))

\* the pull, request by request
NextFanOut ==
    \/ PullStart
    \/ FetchSend
    \/ FetchReceive
    \/ PullFinish

\* the event loop runs every coroutine that is ready and every request that
\* was sent gets an answer
SpecFanOut ==
    /\ FanOutInit
    /\ [][NextFanOut]_vars
    /\ WF_vars(FetchSend)
    /\ WF_vars(FetchReceive)

\* the push, request by request
NextSequential ==
    \/ PushStart
    \/ RequestSend
    \/ RequestReceive
    \/ PushFinish

SpecSequential == SyncInit /\ [][NextSequential]_vars

\* the rerun exists and is linked; none of its blocks is mapped yet
OverlapInit ==
    \E S \in {Store(NoMap, NoMap, <<>>, [b \in BlockIds |-> <<>>])} : InitWith(S, NoMap, NoMap)

\* mapping requests, turn by turn, while the author edits the rerun
NextOverlap ==
    \/ MappingStart
    \/ MappingStep
    \/ MappingFinish
    \/ EditRerunOutline

SpecOverlap == OverlapInit /\ [][NextOverlap]_vars

\* runs of the two commands over a network that fails, with approvals in
\* between
NextRerun ==
    \/ PushOverNetwork
    \/ PullOverNetwork
    \/ ApproveBlock

SpecRerun == SyncInit /\ [][NextRerun]_vars

\* the pull observed, over the days
NextPull ==
    \/ Push
    \/ PullObserved
    \/ Tick

SpecPull == SyncInit /\ [][NextPull]_vars

\* the outline pushed, every request accepted
PushedStore ==
    Bind(Store(SyncStore.blocks, SyncStore.items, SyncStore.links, SyncStore.versions),
         LAMBDA S :
            sync_untranslated_strings_to_meta_from_edx(
                S, SyncCourseTranslations,
                [b \in DOMAIN _get_request_data_list(S, SyncCourseTranslations) |-> "success"]))

PushedService ==
    Bind(SyncStore,
         LAMBDA S :
            ServiceAfterPush(NoMap, _get_request_data_list(S, SyncCourseTranslations),
                [b \in DOMAIN _get_request_data_list(S, SyncCourseTranslations) |-> "success"]))

\* then pulled, the service returning a translation of every unit
TranslatedStore ==
    Bind(PushedStore,
         LAMBDA S :
            sync_translated_strings_to_edx_from_meta(S,
                [sb \in DOMAIN _get_request_data_dict(S, 0) |->
                    [ok |-> TRUE,
                     data |-> [k \in GroupKeys(S, _get_request_data_dict(S, 0)[sb]) |->
                                 [status |-> "translated", revision |-> 1,
                                  translation |-> "T1"]]]], 0))

ResetInit ==
    \E S \in {TranslatedStore} : \E srv \in {PushedService} :
        InitWith(S, srv, update_info_fetched(update_info_sent(NoMap, 0), 0))

\* every way the stored base content changes, with approvals
NextReset ==
    \/ SaveBaseBlock
    \/ ImportBaseBlock
    \/ CourseBlocksMappingView
    \/ ApplyWikiParsingChanges
    \/ Approve

SpecReset == ResetInit /\ [][NextReset]_vars

\* the stored base content changes without the editor, then approvals
NextDrift ==
    \/ ImportBaseBlock
    \/ ApplyWikiParsingChanges
    \/ ApproveBlocks

SpecDrift == ResetInit /\ [][NextDrift]_vars

\* courses are rerun as translated courses, mapped, edited and deleted
NextLinkage ==
    \/ TranslatedRerunOfCourse
    \/ CourseBlocksMappingView
    \/ EditRerunOutline
    \/ DeleteCourse

SpecLinkage == Init /\ [][NextLinkage]_vars

\* the three commands, with and without --commit, between edits of the
\* base course
NextDryRun ==
    \/ SaveBaseBlock
    \/ PushCommand
    \/ PullCommand
    \/ ApplyCommand

SpecDryRun == SyncInit /\ [][NextDryRun]_vars

\* pulls from a service that can return empty texts
NextBlankable ==
    \/ PullBlankable

SpecBlankable == FanOutInit /\ [][NextBlankable]_vars

\* approvals and roll-backs of a rerun while its translations arrive
NextApprove ==
    \/ ApproveBlock
    \/ ApplyVersion
    \/ PullObserved

\* the rerun mapped and pushed, nothing pulled yet
ApproveInit ==
    \E S \in {PushedStore} : \E srv \in {PushedService} :
        InitWith(S, srv, update_info_sent(NoMap, 0))

SpecApprove == ApproveInit /\ [][NextApprove]_vars

(***************************************************************************)
(* transformers/wiki_transformer.py on symbol sequences.  An xpath or a    *)
(* key is the sequence of its characters, a run of letters being one       *)
(* symbol; a text is the sequence of its characters.                       *)
(***************************************************************************)
Digits == {"0", "1", "2"}
Letters == {"problem", "stringresponse", "numericalresponse", "choice", "p", "h"}
MaxDepth == 3

\* re.search(r"\[\d\]", s): the position of the first match, 0 without one
SearchBracketDigit(s) ==
    LET m == {i \in 1..(Len(s) - 2) : s[i] = "[" /\ s[i + 1] \in Digits /\ s[i + 2] = "]"}
    IN IF m = {} THEN 0 ELSE MinOf(m)

\* re.search(r"\.\d", s)
SearchDotDigit(s) ==
    LET m == {i \in 1..(Len(s) - 1) : s[i] = "." /\ s[i + 1] \in Digits}
    IN IF m = {} THEN 0 ELSE MinOf(m)

\* the while loop of _convert_xpath_to_meta_key_format
RECURSIVE ReplaceBracketDigit(_)
ReplaceBracketDigit(s) ==
    LET i == SearchBracketDigit(s)
    IN IF i = 0 THEN s
       ELSE ReplaceBracketDigit(SubSeq(s, 1, i - 1) \o <<".", s[i + 1]>> \o SubSeq(s, i + 3, Len(s)))

\* the while loop of _convert_meta_key_format_to_xpath
RECURSIVE ReplaceDotDigit(_)
ReplaceDotDigit(s) ==
    LET i == SearchDotDigit(s)
    IN IF i = 0 THEN s
       ELSE ReplaceDotDigit(SubSeq(s, 1, i - 1) \o <<"[", s[i + 1], "]">> \o SubSeq(s, i + 2, Len(s)))

\* str.replace of one character by another
Replace(s, old, new) == [i \in DOMAIN s |-> IF s[i] = old THEN new ELSE s[i]]

\* ProblemTransformer._convert_xpath_to_meta_key_format, character by character
ProblemTransformer_convert_xpath_to_meta_key_format(path) ==
    ReplaceBracketDigit(SubSeq(Replace(path, "/", "."), 2, Len(path)))

\* ProblemTransformer._convert_meta_key_format_to_xpath, character by character
ProblemTransformer_convert_meta_key_format_to_xpath(key) ==
    <<"/">> \o Replace(ReplaceDotDigit(key), ".", "/")

\* tree.getpath(e): /tag or /tag[n] per step below the root; the index is
\* written when the element has siblings of its tag
ElementTags == {<<"p">>, <<"choice">>, <<"h", "1">>}
SiblingIndices == {<<>>, <<"[", "1", "]">>, <<"[", "2", "]">>, <<"[", "1", "0", "]">>}
PathSteps == {<<"/">> \o t \o n : t \in ElementTags, n \in SiblingIndices}
RECURSIVE PathsOfDepth(_)
PathsOfDepth(d) ==
    IF d = 1 THEN {<<"/", "problem">>}
    ELSE {p \o s : p \in PathsOfDepth(d - 1), s \in PathSteps}
ElementPaths == UNION {PathsOfDepth(d) : d \in 1..MaxDepth}

\* the store of the synchronised courses, and a value handed to a transformer
TransformerInit(inputs, name) ==
    \E S \in {SyncStore} : \E input \in inputs :
        /\ live = SyncLive
        /\ course_translations = SyncCourseTranslations
        /\ blocks = S.blocks
        /\ items = S.items
        /\ links = S.links
        /\ versions = S.versions
        /\ now = 0
        /\ service = NoMap
        /\ runs = NoMap
        /\ cron_job_info = NoMap
        /\ lastOp = [name |-> name, arg |-> input, err |-> NoError, log |-> NoMap]

\* an element's path is converted to its key and the key back to a path
ConvertPath ==
    /\ lastOp.name = "xpath"
    /\ \E key \in {ProblemTransformer_convert_xpath_to_meta_key_format(lastOp.arg)} :
          lastOp' = [name |-> "meta_key", arg |-> lastOp.arg, err |-> NoError,
                     log |-> [key |-> key,
                              xpath |-> ProblemTransformer_convert_meta_key_format_to_xpath(key)]]
    /\ UNCHANGED <<live, course_translations, blocks, items, links, versions, now, service,
                   runs, cron_job_info>>

NextKeys ==
    \/ ConvertPath

SpecKeys == TransformerInit(ElementPaths, "xpath") /\ [][NextKeys]_vars

\* Python None where a text is expected; "" is <<>>
NoText == <<"None">>
Truthy(v) == v # NoText /\ v # <<>>
Whitespace == {" ", "\n"}

RECURSIVE lstrip(_, _)
lstrip(s, chars) == IF s # <<>> /\ Head(s) \in chars THEN lstrip(Tail(s), chars) ELSE s
RECURSIVE rstrip(_, _)
rstrip(s, chars) ==
    IF s # <<>> /\ s[Len(s)] \in chars THEN rstrip(SubSeq(s, 1, Len(s) - 1), chars) ELSE s
\* str.strip(chars)
strip(s, chars) == rstrip(lstrip(s, chars), chars)

\* A problem document after etree.XML(raw, parser): the text and the answer
\* attribute of every element, keyed by the element's path.
\* ProblemTransformer.raw_data_to_meta_data
ProblemTransformer_raw_data_to_meta_data(raw_data) ==
    LET is_text_input == <<"/", "problem", "/", "stringresponse">> \in DOMAIN raw_data
        UsesAnswer(p) == is_text_input /\ Truthy(raw_data[p].answer)
        emitted == {p \in DOMAIN raw_data : UsesAnswer(p) \/ Truthy(raw_data[p].text)}
        keys == {ProblemTransformer_convert_xpath_to_meta_key_format(p) : p \in emitted}
    IN [k \in keys |->
          LET p == CHOOSE x \in emitted : ProblemTransformer_convert_xpath_to_meta_key_format(x) = k
          IN IF UsesAnswer(p) THEN strip(raw_data[p].answer, Whitespace)
             ELSE strip(raw_data[p].text, Whitespace)]

\* ProblemTransformer.meta_data_to_raw_data: [raw, err]
ProblemTransformer_meta_data_to_raw_data(meta_data) ==
    LET xml_data == meta_data.xml_data
        encodings == meta_data.encodings
        xpath(k) == ProblemTransformer_convert_meta_key_format_to_xpath(k)
        KeysOf(p) == {k \in DOMAIN encodings : xpath(k) = p}
    IN IF \E k \in DOMAIN encodings : xpath(k) \notin DOMAIN xml_data
       THEN [raw |-> NoMap, err |-> "not found in xml_data"]
       ELSE [raw |-> [p \in DOMAIN xml_data |->
                         IF KeysOf(p) = {} THEN xml_data[p]
                         ELSE LET value == encodings[CHOOSE k \in KeysOf(p) : TRUE]
                              IN IF Truthy(xml_data[p].answer)
                                 THEN [xml_data[p] EXCEPT !.answer = value]
                                 ELSE [xml_data[p] EXCEPT !.text = value]],
             err |-> "none"]

\* VideoTranscriptTransformer._convert_locations_to_meta_keys
_convert_locations_to_meta_keys(start_points, end_points) ==
    [i \in 1..MinOf({Len(start_points), Len(end_points)}) |->
        <<"subtitle", "-", start_points[i], "-", end_points[i], "-", i>>]

\* VideoTranscriptTransformer.raw_data_to_meta_data
VideoTranscriptTransformer_raw_data_to_meta_data(raw_data) ==
    LET meta_keys == _convert_locations_to_meta_keys(raw_data.start, raw_data.end)
        transcript_text == [i \in DOMAIN raw_data.text |->
                               IF Truthy(raw_data.text[i]) THEN raw_data.text[i]
                               ELSE <<".", ".", ".", ".">>]
        n == MinOf({Len(meta_keys), Len(transcript_text)})
    IN [k \in {meta_keys[i] : i \in 1..n} |->
           transcript_text[CHOOSE i \in 1..n : meta_keys[i] = k]]

\* VideoTranscriptTransformer.meta_data_to_raw_data: [raw, err]
VideoTranscriptTransformer_meta_data_to_raw_data(meta_data) ==
    LET meta_keys == _convert_locations_to_meta_keys(meta_data.start_points, meta_data.end_points)
    IN IF \E i \in DOMAIN meta_keys : meta_keys[i] \notin DOMAIN meta_data.encodings
       THEN [raw |-> NoMap, err |-> "not found in translated data"]
       ELSE [raw |-> [i \in DOMAIN meta_keys |-> strip(meta_data.encodings[meta_keys[i]], {"\n"})],
             err |-> "none"]

\* problem documents: the root, one response element and one paragraph
ResponseTags == {"stringresponse", "numericalresponse"}
ElementTexts == {NoText, <<"q">>, <<" ", "q">>}
ElementAnswers == {NoText, <<"a">>, <<"a", " ">>}
ProblemDocuments ==
    {(<<"/", "problem">> :> [text |-> NoText, answer |-> NoText])
        @@ (<<"/", "problem", "/", tag>> :> e)
        @@ (<<"/", "problem", "/", "p">> :> para) :
     tag \in ResponseTags, e \in [text : ElementTexts, answer : ElementAnswers],
     para \in [text : ElementTexts, answer : {NoText}]}

\* transcripts of one or two cues
CueTexts == {<<>>, <<"s">>, <<"s", "\n">>}
Transcripts ==
    {[start |-> <<0>>, end |-> <<1>>, text |-> <<t>>] : t \in CueTexts}
       \cup {[start |-> <<0, 1>>, end |-> <<1, 2>>, text |-> <<t, u>>] : t, u \in CueTexts}

\* a problem is decomposed and recomposed over itself (wiki_components.py)
RoundTripProblem ==
    /\ lastOp.name = "problem"
    /\ \E meta \in {ProblemTransformer_raw_data_to_meta_data(lastOp.arg)} :
       \E r \in {ProblemTransformer_meta_data_to_raw_data(
                     [xml_data |-> lastOp.arg, encodings |-> meta])} :
          lastOp' = [name |-> "problem_round_trip", arg |-> lastOp.arg, err |-> NoError,
                     log |-> [meta |-> meta, raw |-> r.raw, err |-> r.err]]
    /\ UNCHANGED <<live, course_translations, blocks, items, links, versions, now, service,
                   runs, cron_job_info>>

\* a transcript is decomposed and recomposed over its own start and end points
RoundTripVideo ==
    /\ lastOp.name = "video"
    /\ \E meta \in {VideoTranscriptTransformer_raw_data_to_meta_data(lastOp.arg)} :
       \E r \in {VideoTranscriptTransformer_meta_data_to_raw_data(
                     [encodings |-> meta, start_points |-> lastOp.arg.start,
                      end_points |-> lastOp.arg.end])} :
          lastOp' = [name |-> "video_round_trip", arg |-> lastOp.arg, err |-> NoError,
                     log |-> [meta |-> meta, raw |-> r.raw, err |-> r.err]]
    /\ UNCHANGED <<live, course_translations, blocks, items, links, versions, now, service,
                   runs, cron_job_info>>

NextRoundTrip ==
    \/ RoundTripProblem
    \/ RoundTripVideo

RoundTripInit ==
    \/ TransformerInit(ProblemDocuments, "problem")
    \/ TransformerInit(Transcripts, "video")

SpecRoundTrip == RoundTripInit /\ [][NextRoundTrip]_vars

(***************************************************************************)
(* utils.update_course_to_source and the pushes that follow it.            *)
(***************************************************************************)
RECURSIVE UpdateFlagsToSource(_, _, _)
\* "for course_block in CourseBlock.objects.filter(course_id=course_key):
\*      course_block.update_flag_to_source(course.language)"
UpdateFlagsToSource(S, bs, language) ==
    IF bs = {} THEN S
    ELSE LET b == CHOOSE x \in bs : TRUE
             S1 == IF S.blocks[b].direction_flag = _DESTINATION
                   THEN update_flag_to_source(S, b, language)
                   ELSE S
         IN UpdateFlagsToSource(S1, bs \ {b}, language)

\* utils.update_course_to_source: the store and the linkage rows after the call
update_course_to_source(S, ct, course_key) ==
    IF \E r \in ct : r.course_id = course_key
    THEN [store |-> UpdateFlagsToSource(S, {b \in DOMAIN S.blocks : b[1] = course_key},
                                        CourseLanguage(course_key)),
          ct |-> {r \in ct : r.course_id # course_key}]
    ELSE [store |-> S, ct |-> ct]

\* a translated course is converted back to a Source course
UpdateCourseToSource ==
    \E course_key \in Courses :
        /\ live[course_key] # NoMap
        /\ \E r \in {update_course_to_source(StoreNow, course_translations, course_key)} :
              /\ Commit(r.store)
              /\ course_translations' = r.ct
              /\ lastOp' = Op("course_to_source", <<course_key, "a">>, r.store)
        /\ UNCHANGED <<cron_job_info, runs, live, now, service>>

\* a push with --commit whose requests are all answered with success
PushDelivered ==
    LET data_list == _get_request_data_list(StoreNow, course_translations)
    IN \E outcome \in {[b \in DOMAIN data_list |-> "success"]} :
        LET S == sync_untranslated_strings_to_meta_from_edx(StoreNow, course_translations, outcome)
        IN /\ Commit(S)
           /\ service' = ServiceAfterPush(service, data_list, outcome)
           /\ lastOp' = [name |-> "push", arg |-> outcome, err |-> S.err,
                         log |-> [data_list |-> data_list,
                                  dirty |-> FlaggedItems(items)]]
           /\ cron_job_info' = IF Failed(S) THEN cron_job_info
                               ELSE update_info_sent(cron_job_info, now)
           /\ UNCHANGED <<runs, live, course_translations, now>>

\* toggles, conversions to Source and deletions of courses between pushes
NextPending ==
    \/ PushDelivered
    \/ Push
    \/ ToggleDirection
    \/ UpdateCourseToSource
    \/ DeleteCourse

\* the push command is run again and again by cron, and the service
\* answers every request of some run with success
SpecPending ==
    /\ SyncInit
    /\ [][NextPending]_vars
    /\ WF_vars(PushDelivered)

\* the push, request by request, while the author saves base blocks
NextInFlight ==
    \/ PushStart
    \/ RequestSend
    \/ RequestReceive
    \/ PushFinish
    \/ SaveBaseBlock

SpecInFlight == SyncInit /\ [][NextInFlight]_vars

\* a base course with two components in one chapter, and its mapped rerun
SourcesOutline ==
    [n \in {"a", "c", "b", "m"} |->
        CASE n = "b" -> [display_name |-> "Hi", content |-> P1]
          [] n = "m" -> [display_name |-> "Hello", content |-> P2]
          [] OTHER -> InitialData(n)]
SourcesLive == [c \in Courses |-> IF c = SecondRerun THEN NoMap ELSE SourcesOutline]
SourcesInit ==
    \E S \in {course_blocks_mapping(Store(NoMap, NoMap, <<>>, [b \in BlockIds |-> <<>>]),
                                     SourcesLive, SyncCourseTranslations, RerunCourse)} :
        /\ live = SourcesLive
        /\ course_translations = SyncCourseTranslations
        /\ blocks = S.blocks
        /\ items = S.items
        /\ links = S.links
        /\ versions = S.versions
        /\ now = 0
        /\ service = NoMap
        /\ runs = NoMap
        /\ cron_job_info = NoMap
        /\ lastOp = [name |-> "init", arg |-> NoBlock, err |-> NoError, log |-> NoMap]

\* the author of the rerun adds a component to the chapter, or removes it
AuthorRerunComponent ==
    /\ \/ \E d \in [display_name : DisplayNames, content : ProblemXml] :
            /\ "h" \notin DOMAIN live[RerunCourse]
            /\ live' = [live EXCEPT ![RerunCourse] = MapPut(@, "h", d)]
       \/ /\ "h" \in DOMAIN live[RerunCourse]
          /\ live' = [live EXCEPT ![RerunCourse] = MapRemove(@, {"h"})]
    /\ lastOp' = Op("author_rerun_component", <<RerunCourse, "h">>, StoreNow)
    /\ UNCHANGED <<cron_job_info, runs, course_translations, blocks, items, links, versions,
                   now, service>>

\* components authored in the rerun, mapping runs and toggles
NextSources ==
    \/ AuthorRerunComponent
    \/ CourseBlocksMappingView
    \/ ToggleDirection

SpecSources == SourcesInit /\ [][NextSources]_vars

(***************************************************************************)
(* Properties of the mapping resolver.                                     *)
(***************************************************************************)
\* the state was produced by a mapping run over the rerun
AfterRerunMapping ==
    lastOp.name \in {"rerun", "mapping"} /\ lastOp.arg[1] = RerunCourse

\* the source items the target block is linked to for a data type
MappedItems(target, key) ==
    {links[i].source : i \in {j \in LinksOfTarget(links, target) : links[j].source[2] = key}}

\* the candidates of the one value search the attempt made
ValueCandidates(e) == IF e.parent_mapped THEN e.parent_scoped ELSE e.whole_course

\* C6 (amended): a mapping attempt takes the reference-key match when there is
\* exactly one; with no reference-key match it makes ONE value search, scoped
\* to the mapped parent's children when the parent is mapped and over the whole
\* course otherwise, and the node is mapped to the single candidate of that
\* search or left unmapped when that search is empty.
C6_StrategiesAreEitherOr ==
    AfterRerunMapping =>
        \A tk \in DOMAIN lastOp.log :
            LET e == lastOp.log[tk]
                created == MappedItems(tk[1], tk[2])
            IN /\ Cardinality(e.ref) = 1 => created = e.ref
               /\ e.ref = {} /\ Cardinality(ValueCandidates(e)) = 1 => created = ValueCandidates(e)
               /\ e.ref = {} /\ ValueCandidates(e) = {} => created = {}

\* C6 witness: a node whose parent is mapped, with no parent-scoped candidate
\* and one whole-course candidate, was processed and left unmapped.
C6_Witness ==
    /\ AfterRerunMapping
    /\ lastOp.err = NoError
    /\ \E tk \in DOMAIN lastOp.log :
          LET e == lastOp.log[tk]
          IN /\ e.ref = {} /\ e.parent_mapped /\ e.parent_scoped = {}
             /\ Cardinality(e.whole_course) = 1
             /\ MappedItems(tk[1], tk[2]) = {}

\* C6 as stated: after a run that raised nothing, a node and data type is left
\* unmapped only when the reference key, the parent-scoped search and the
\* whole-course search all yield no candidate.
C6_AsStated ==
    AfterRerunMapping /\ lastOp.err = NoError =>
        \A tk \in DOMAIN lastOp.log :
            MappedItems(tk[1], tk[2]) = {} =>
                LET e == lastOp.log[tk]
                IN e.ref = {} /\ e.parent_scoped = {} /\ e.whole_course = {}

\* C7 as stated: whenever the search of a mapping attempt (by reference key or
\* by value) matches more than one base candidate, the run raises
\* MultipleObjectsFoundInMappingCreation carrying the rerun block's identifier
\* and no link is created for that node and data type.
C7_AsStated ==
    AfterRerunMapping =>
        \A tk \in DOMAIN lastOp.log :
            LET e == lastOp.log[tk]
            IN (Cardinality(e.ref) > 1 \/ (e.ref = {} /\ Cardinality(ValueCandidates(e)) > 1)) =>
                  /\ lastOp.err = [type |-> "MultipleObjectsFoundInMappingCreation",
                                   block_id |-> tk[1]]
                  /\ MappedItems(tk[1], tk[2]) = {}

\* no two rows for one (target block, source item) pair
MappingUnique(ls) ==
    \A i, j \in DOMAIN ls :
        ls[i].target = ls[j].target /\ ls[i].source = ls[j].source => i = j

\* C8: every step leaves at most one link per (target block, source item) pair
\* and never runs into the database's uniqueness constraint, and a mapping run
\* over the rerun that follows a completed mapping run over the rerun adds no link.
C8_MappingUniqueness ==
    [][/\ MappingUnique(links')
       /\ lastOp'.err.type # "IntegrityError"
       /\ (/\ AfterRerunMapping /\ lastOp.err = NoError
           /\ lastOp'.name = "mapping" /\ lastOp'.arg[1] = RerunCourse) => links' = links]_vars

\* C8 witness: a mapping run over an already mapped rerun made no attempt and
\* raised nothing.
C8_Witness ==
    /\ lastOp.name = "mapping" /\ lastOp.arg[1] = RerunCourse
    /\ lastOp.err = NoError
    /\ lastOp.log = NoMap
    /\ Len(links) >= 3

\* C9 as stated: after a mapping run over the rerun, every rerun node whose
\* reference key is the one of a base block that is not soft-deleted has
\* exactly one link, to that base block's item of the same data type.
C9_AsStated ==
    AfterRerunMapping =>
        \A n \in DOMAIN live[RerunCourse] : \A k \in DOMAIN live[RerunCourse][n] :
            LET B == <<BaseCourse, n>>
            IN (B \in DOMAIN blocks /\ ~blocks[B].deleted /\ <<B, k>> \in DOMAIN items) =>
                  /\ MappedItems(<<RerunCourse, n>>, k) = {<<B, k>>}
                  /\ Cardinality(LinksOfTarget(links, <<RerunCourse, n>>)
                                   \cap LinksOfSource(links, <<B, k>>)) = 1

ProcessedLinks(sb) == LinksOfTarget(links, lastOp'.log.data_dict[sb])

\* C1: a pull that processes a link holding a translation, a fetch date and a
\* stored revision r1 for key k leaves the translation and the revision of k
\* as they are when the answer repeats r1, and replaces both with the
\* answer's when the answer carries another revision r2.
C1_RevisionGating ==
    [][lastOp'.name = "pull" =>
        \A sb \in DOMAIN lastOp'.log.data_dict :
          lastOp'.arg[sb].ok =>
            \A i \in ProcessedLinks(sb) :
              (links[i].translation # NoMap /\ links[i].last_fetched # NoDate) =>
                \A k \in (DOMAIN links[i].fetched_commits) \cap (DOMAIN lastOp'.arg[sb].data) :
                  LET r1 == links[i].fetched_commits[k]
                      answer == lastOp'.arg[sb].data[k]
                  IN /\ answer.revision = r1 =>
                          /\ links'[i].translation[k] = links[i].translation[k]
                          /\ links'[i].fetched_commits[k] = r1
                     /\ (answer.revision # r1 /\ answer.revision # NoRev) =>
                          /\ links'[i].translation[k] = answer.translation
                          /\ links'[i].fetched_commits[k] = answer.revision]_vars

\* a pull has answered a stored revision with the same revision and another
\* text, which the link did not take, and a stored revision with a later
\* one, which the link took
C1_Witness ==
    /\ lastOp.name = "pull"
    /\ \E sb \in DOMAIN lastOp.log.data_dict :
         /\ lastOp.arg[sb].ok
         /\ \E i \in LinksOfTarget(links, lastOp.log.data_dict[sb]) :
              \E k \in (DOMAIN lastOp.log.commits[i]) \cap (DOMAIN lastOp.arg[sb].data) :
                 /\ lastOp.arg[sb].data[k].revision = lastOp.log.commits[i][k]
                 /\ lastOp.arg[sb].data[k].translation # links[i].translation[k]
         /\ \E i \in LinksOfTarget(links, lastOp.log.data_dict[sb]) :
              \E k \in (DOMAIN lastOp.log.commits[i]) \cap (DOMAIN lastOp.arg[sb].data) :
                 /\ lastOp.arg[sb].data[k].revision # lastOp.log.commits[i][k]
                 /\ lastOp.arg[sb].data[k].revision = links[i].fetched_commits[k]
                 /\ lastOp.arg[sb].data[k].translation = links[i].translation[k]

\* the links to a ContentItem
LinksTo(ls, it) == {i \in DOMAIN ls : ls[i].source = it}

\* the push of a command has cleared the flags of the block
PushedInCommand(op, b) ==
    /\ op.name = "parsing_changes"
    /\ b \in DOMAIN op.log.pushed
    /\ op.log.pushed[b] = "success"

\* the pull of a command has written translations of the block
FetchedInCommand(op, b) == op.name = "parsing_changes" /\ b \in op.log.fetched

\* C2: whenever a step changes the stored raw content of a ContentItem, the
\* item is flagged content_updated after the step (unless the step's own
\* push cleared the flag), every link to the item is unapproved and holds no
\* translation (unless the step's own pull wrote one), and no version of the
\* linked block remains.
C2_AsStated ==
    [][\A it \in (DOMAIN items) \cap (DOMAIN items') :
          items'[it].data # items[it].data =>
            /\ items'[it].content_updated \/ PushedInCommand(lastOp', it[1])
            /\ \A i \in LinksTo(links', it) :
                 /\ ~links'[i].approved
                 /\ links'[i].translation = NoMap \/ FetchedInCommand(lastOp', links'[i].target)
                 /\ versions'[links'[i].target] = <<>>]_vars

\* C3: a pull leaves the translation of every link whose source ContentItem
\* is flagged content_updated as it was.
C3_AsStated ==
    [][lastOp'.name = "pull" =>
        \A i \in DOMAIN links :
           items[links[i].source].content_updated =>
              links'[i].translation = links[i].translation]_vars

\* the value of key k on link i differs after the step
Written(i, k) ==
    /\ k \in DOMAIN links'[i].translation
    /\ MapGet(links[i].translation, k, "None") # links'[i].translation[k]

\* C4: a pull writes the value of a key onto a link only when the answer
\* gives the key the status translated or proofread and, besides, the link
\* stored no revision for the key or the answer's revision differs from it.
C4_AsStated ==
    [][lastOp'.name = "pull" =>
        \A sb \in DOMAIN lastOp'.log.data_dict :
          lastOp'.arg[sb].ok =>
            \A i \in ProcessedLinks(sb) :
              \A k \in DOMAIN links'[i].translation :
                 Written(i, k) =>
                   /\ ResponseStatus(lastOp'.arg[sb].data, k) \in translated_status
                   /\ \/ MapGet(links[i].fetched_commits, k, NoRev) = NoRev
                      \/ ResponseRevision(lastOp'.arg[sb].data, k)
                           # MapGet(links[i].fetched_commits, k, NoRev)]_vars

\* the base blocks with a flagged ContentItem
DirtyBaseBlocks ==
    {b \in DOMAIN blocks :
        /\ b[1] \in get_base_courses_list(course_translations, TRUE)
        /\ \E it \in ItemsOfBlock(items, b) :
              items[it].content_updated \/ items[it].mapping_updated}

ToggledToSource(b) ==
    /\ lastOp'.name = "to_source" /\ lastOp'.arg = b /\ lastOp'.err = NoError

\* C11 (amended): a toggle of a block from Destination to Source sets the
\* block's direction to Source, removes the rerun's language from the
\* mapped-language set of the block's source block, flags every item of that
\* source block mapping_updated, and keeps every TranslationLink row.
C11_ToggleToSource ==
    [][\A b \in DOMAIN blocks :
          ToggledToSource(b) =>
             LET sb == get_source_block(StoreNow, b)
             IN /\ blocks[b].direction_flag = _DESTINATION
                /\ blocks'[b].direction_flag = _Source
                /\ links' = links
                /\ sb # NoBlock =>
                      /\ CourseLanguage(b[1]) \notin blocks'[sb].lang
                      /\ \A it \in ItemsOfBlock(items', sb) : items'[it].mapping_updated]_vars

\* a mapped Destination block whose source items were clean and whose source
\* block listed the rerun's language has been toggled to Source
C11_Witness ==
    /\ lastOp.name = "to_source" /\ lastOp.err = NoError
    /\ LinksOfTarget(links, lastOp.arg) # {}
    /\ LET sb == get_source_block(StoreNow, lastOp.arg)
       IN /\ ItemsOfBlock(items, sb) # {}
          /\ ItemsOfBlock(items, sb) \cap lastOp.log.dirty = {}
          /\ CourseLanguage(lastOp.arg[1]) \in lastOp.log.lang[sb]
          /\ CourseLanguage(lastOp.arg[1]) \notin blocks[sb].lang
          /\ \A it \in ItemsOfBlock(items, sb) : items[it].mapping_updated

\* C11 as stated: a toggle from Destination to Source removes the language
\* from the source block, flags the source items and deletes the block's
\* TranslationLink rows.
C11_AsStated ==
    [][\A b \in DOMAIN blocks :
          ToggledToSource(b) =>
             LET sb == get_source_block(StoreNow, b)
             IN /\ sb # NoBlock =>
                      /\ CourseLanguage(b[1]) \notin blocks'[sb].lang
                      /\ \A it \in ItemsOfBlock(items', sb) : items'[it].mapping_updated
                /\ LinksOfTarget(links', b) = {}]_vars

(***************************************************************************)
(* Properties of the approval and of the versions.                         *)
(***************************************************************************)
\* C12 as stated: an approval of a Destination block that is not fully
\* translated fails,
\* approves no link, creates no TranslationVersion and leaves the block's
\* applied version as it was.
C12_AsStated ==
    [][\A b \in DOMAIN blocks :
          (/\ lastOp'.name = "approve" /\ lastOp'.arg = b
           /\ blocks[b].direction_flag = _DESTINATION
           /\ ~is_block_translated(StoreNow, b)) =>
             /\ lastOp'.err # NoError
             /\ \A i \in LinksOfTarget(links, b) : links'[i].approved = links[i].approved
             /\ versions'[b] = versions[b]
             /\ blocks'[b].applied_version = blocks[b].applied_version]_vars

\* C13: an approval that succeeds leaves every link of the block approved by
\* the approver, appends exactly one TranslationVersion to the block's
\* versions and none to another block's, the new version holds for each data
\* type the translation of the block's link of that type and the approver,
\* and it is the block's applied version.
C13_ApproveSnapshot ==
    [][\A b \in DOMAIN blocks :
          (lastOp'.name = "approve" /\ lastOp'.arg = b /\ lastOp'.err = NoError) =>
             LET n == Len(versions'[b])
                 ix == LinksOfTarget(links', b)
             IN /\ \A i \in ix : links'[i].approved /\ links'[i].approved_by = lastOp'.log.user
                /\ n = Len(versions[b]) + 1
                /\ SubSeq(versions'[b], 1, n - 1) = versions[b]
                /\ \A c \in DOMAIN versions : c # b => versions'[c] = versions[c]
                /\ DOMAIN versions'[b][n].data = {links'[i].source[2] : i \in ix}
                /\ \A i \in ix : versions'[b][n].data[links'[i].source[2]] = links'[i].translation
                /\ versions'[b][n].approved_by = lastOp'.log.user
                /\ blocks'[b].applied_version = n
                /\ blocks'[b].applied_translation]_vars

\* a fully translated problem block with a display name and a content link
\* was approved for the second time and its second version is applied
C13_Witness ==
    /\ lastOp.name = "approve" /\ lastOp.err = NoError
    /\ lastOp.log.translated
    /\ Cardinality(LinksOfTarget(links, lastOp.arg)) = 2
    /\ Len(versions[lastOp.arg]) = 2
    /\ versions[lastOp.arg][2].data # versions[lastOp.arg][1].data
    /\ blocks[lastOp.arg].applied_version = 2

\* the version is the one the block has applied
CurrentVersion(b, version) ==
    version[1] = b /\ blocks[b].applied_version = version[2]

\* C14: the application of a version whose block identifier is not the
\* target block's, or of the version the block has applied already, is
\* rejected and leaves the block's row, the live content, the links and the
\* versions as they were.
C14_ApplyVersionRejects ==
    [][\A b \in DOMAIN blocks :
          (/\ lastOp'.name = "apply_version" /\ lastOp'.arg = b
           /\ \/ lastOp'.log.version[1] # b
              \/ CurrentVersion(b, lastOp'.log.version)) =>
             /\ lastOp'.err.type \in {"Invalid applied version", "Version is already applied"}
             /\ blocks' = blocks
             /\ live' = live
             /\ links' = links
             /\ versions' = versions]_vars

\* a version of another block was refused for a block that has an applied
\* version of its own and an older version that could be applied
C14_Witness ==
    /\ lastOp.name = "apply_version"
    /\ lastOp.err.type = "Invalid applied version"
    /\ lastOp.log.version[1] # lastOp.arg
    /\ blocks[lastOp.arg].applied_translation
    /\ blocks[lastOp.arg].applied_version = 2

(***************************************************************************)
(* Properties of the bookkeeping of the pull.                              *)
(***************************************************************************)
\* the answer holds a record for every unit of the link's source item
AnswersEveryUnit(i, response_data) ==
    UnitKeys(StoreNow, links[i].source) \subseteq DOMAIN response_data

\* C15 as stated: a pull that processes an answer for a link's block, with a
\* record for every unit of the link, sets the link's last_fetched to the
\* day of the run, whether or not a key was written and also when the link
\* was never fetched before and no record is translated.
C15_AsStated ==
    [][lastOp'.name = "pull" =>
        \A sb \in DOMAIN lastOp'.log.data_dict :
          lastOp'.arg[sb].ok =>
            \A i \in ProcessedLinks(sb) :
               AnswersEveryUnit(i, lastOp'.arg[sb].data) => links'[i].last_fetched = now]_vars

\* C16: a pull that changes the translation or the stored revisions of a
\* link leaves the link unapproved and without approver.
C16_PullClearsApproval ==
    [][lastOp'.name = "pull" =>
        \A i \in DOMAIN links :
           (\/ links'[i].translation # links[i].translation
            \/ links'[i].fetched_commits # links[i].fetched_commits) =>
              /\ ~links'[i].approved
              /\ links'[i].approved_by = NoUser]_vars

\* a pull has written a key onto a link that was approved, and the link is
\* unapproved
C16_Witness ==
    /\ lastOp.name = "pull"
    /\ \E i \in DOMAIN links :
          /\ lastOp.log.approved[i]
          /\ links[i].fetched_commits # lastOp.log.commits[i]
          /\ links[i].translation # NoMap
          /\ ~links[i].approved
          /\ links[i].approved_by = NoUser

\* C17 as stated: when the save of a base block resets the translations of an
\* item (the item's stored data changed), every link to the item is left
\* with no translation, unapproved, with no fetch date and no stored
\* revisions, and no version of the link's target block remains.
C17_AsStated ==
    [][lastOp'.name = "save_base_block" =>
        \A it \in DOMAIN items :
           items'[it].data # items[it].data =>
              \A i \in LinksTo(links', it) :
                 /\ links'[i].translation = NoMap
                 /\ ~links'[i].approved
                 /\ links'[i].last_fetched = NoDate
                 /\ links'[i].fetched_commits = NoMap
                 /\ versions'[links'[i].target] = <<>>]_vars

\* C18: a request of a push or of a pull that ends with a timeout or a
\* connection error does not abort the run: every request of the push is
\* sent and the flags of the blocks the service accepted are cleared; the
\* answers of the other fetches of the pull are processed as they are
\* when the failed fetch has no answer.
C18_AsStated ==
    [][/\ (lastOp'.name = "push" /\ lastOp'.log.session.csrf) =>
            /\ lastOp'.log.sent = DOMAIN lastOp'.log.data_list
            /\ \A b \in DOMAIN lastOp'.log.data_list : lastOp'.arg[b] = "success" =>
                  \A it \in ItemsOfBlock(items, b) :
                     ~items'[it].content_updated /\ ~items'[it].mapping_updated
       /\ lastOp'.name = "pull" =>
            LET answered == [sb \in DOMAIN lastOp'.arg |->
                               IF sb \in lastOp'.log.raised
                               THEN [ok |-> FALSE, data |-> NoMap]
                               ELSE lastOp'.arg[sb]]
                expected == sync_translated_strings_to_edx_from_meta(StoreNow, answered, now)
            IN links' = expected.links /\ blocks' = expected.blocks]_vars

C20_AsStated ==
    [][lastOp'.name = "push" =>
        LET session == lastOp'.log.session
            authenticated == session.token /\ session.login /\ session.csrf
        IN /\ lastOp'.log.sent # {} => authenticated
           /\ ~authenticated =>
                 /\ lastOp'.log.sent = {}
                 /\ items' = items
                 /\ lastOp'.err # NoError]_vars

C22_SequentialSpacing ==
    "push" \in DOMAIN runs =>
        LET run == runs["push"]
        IN /\ Len(run.start_time) - Len(run.end_time) \in {0, 1}
           /\ \A i \in DOMAIN run.start_time : i > 1 =>
                 LET execution_time == run.end_time[i - 1] - run.start_time[i - 1]
                 IN /\ run.start_time[i] >= run.end_time[i - 1]
                    /\ run.start_time[i] >=
                          run.start_time[i - 1] + WIKI_META_API_REQUEST_DELAY_IN_SECONDS
                    /\ run.start_time[i] - run.end_time[i - 1] =
                          IF execution_time < WIKI_META_API_REQUEST_DELAY_IN_SECONDS
                          THEN WIKI_META_API_REQUEST_DELAY_IN_SECONDS - execution_time
                          ELSE 0

\* the third request of a push has started; the first took less than the
\* delay and the run slept, the second took more and the run did not
C22_Witness ==
    /\ "push" \in DOMAIN runs
    /\ Len(runs["push"].start_time) = 3
    /\ runs["push"].end_time[1] - runs["push"].start_time[1]
          < WIKI_META_API_REQUEST_DELAY_IN_SECONDS
    /\ runs["push"].slept[1] > 0
    /\ runs["push"].end_time[2] - runs["push"].start_time[2]
          > WIKI_META_API_REQUEST_DELAY_IN_SECONDS
    /\ runs["push"].slept[2] = 0

\* C23: no two mapping runs of one course are in progress at the same time.
C23_AsStated ==
    \A r1, r2 \in MappingRuns \cap DOMAIN runs :
        runs[r1].course_key = runs[r2].course_key => r1 = r2

\* the store after the step
StoreAfter == Store(blocks', items', links', versions')

C25_AsStated ==
    [][(/\ lastOp'.name \in {"mapping", "rerun"}
        /\ lastOp'.err.type = "MultipleObjectsFoundInMappingCreation") =>
          \A n \in (DOMAIN live'[RerunCourse]) \ Subtree(lastOp'.err.block_id[2]) :
             <<RerunCourse, n>> \in DOMAIN blocks']_vars

\* C26: when the content of a block of an approval request cannot be
\* recomposed (a key of the translation has no element in the document), the
\* rows of that block and the modulestore are as they were before the
\* request, and every other block of the request is approved.
C26_AsStated ==
    [][(lastOp'.name = "approve_blocks" /\ lastOp'.err.type = "Exception") =>
          LET t == lastOp'.err.block_id
          IN /\ blocks'[t] = blocks[t]
             /\ versions'[t] = versions[t]
             /\ \A i \in LinksOfTarget(links, t) : links'[i] = links[i]
             /\ live' = live
             /\ \A j \in DOMAIN lastOp'.arg :
                   lastOp'.arg[j] # t =>
                      is_translations_approved(StoreAfter, lastOp'.arg[j])]_vars

\* C28: the versions of a block are append-only: a step that is not an
\* approval leaves every block's versions as they were, and every step keeps
\* the versions a block already has, unchanged and in place.
C28_AsStated ==
    [][/\ lastOp'.name \notin {"approve", "approve_blocks"} =>
             versions' = versions
       /\ \A b \in BlockIds :
             /\ Len(versions'[b]) >= Len(versions[b])
             /\ SubSeq(versions'[b], 1, Len(versions[b])) = versions[b]]_vars

\* C30: the mapping of the base course is idempotent: in the state a mapping
\* run leaves, mapping the base course once more over the same outline
\* returns the store as it is (no row written, no content_updated flag set,
\* no translation reset).
C30_SyncBaseIdempotent ==
    lastOp.name \in {"mapping", "rerun"} =>
        Bind(check_and_map_course_blocks(
                 StoreNow, get_recursive_blocks_data(live, BaseCourse), BaseCourse, "none"),
             LAMBDA S : S = StoreNow)

\* a mapping run has ended over a base outline with the problem "b", whose
\* block and items are stored, and the rerun's mappings exist
C30_Witness ==
    /\ lastOp.name = "mapping"
    /\ "b" \in DOMAIN live[BaseCourse]
    /\ <<BaseCourse, "b">> \in DOMAIN blocks
    /\ ItemsOfBlock(items, <<BaseCourse, "b">>) # {}
    /\ \E i \in DOMAIN links : links[i].source[1] = <<BaseCourse, "b">>

\* C29: no course is both the base course of a linkage and the translated
\* course of a linkage.
C29_AsStated ==
    \A r1 \in course_translations : \A r2 \in course_translations :
        r1.base_course_id # r2.course_id

\* C27: rows are removed on the rerun side only: after a mapping run of a
\* translated course that ended without an error, every stored block of that
\* course is in its live outline and every link points at a stored block;
\* and no step removes a block of a base course, or one of its items, from
\* the store.
C27_AsStated ==
    [][/\ (/\ lastOp'.name \in {"mapping", "translated_rerun"}
            /\ lastOp'.err.type = "none"
            /\ \E r \in course_translations' : r.course_id = lastOp'.arg[1]) =>
               /\ \A b \in DOMAIN blocks' :
                     b[1] = lastOp'.arg[1] => b[2] \in DOMAIN live'[b[1]]
               /\ \A i \in DOMAIN links' : links'[i].target \in DOMAIN blocks'
       /\ \A b \in DOMAIN blocks :
             (\E r \in course_translations : r.base_course_id = b[1]) =>
                /\ b \in DOMAIN blocks'
                /\ ItemsOfBlock(items, b) \subseteq DOMAIN items']_vars

\* C31: a run of the push, pull or apply command without --commit leaves the
\* tables (blocks, items, links, versions, cron-job info), the modulestore
\* and the service as they are, sends no request, and reports the work that
\* is pending: the request list, the request dict, or the data to apply.
C31_DryRun ==
    [][(lastOp'.name \in {"push_command", "pull_command", "apply_command"}
          /\ ~lastOp'.arg) =>
          /\ UNCHANGED <<blocks, items, links, versions, cron_job_info, live, service,
                         course_translations>>
          /\ lastOp'.log.requests = {}
          /\ lastOp'.log.report =
                CASE lastOp'.name = "push_command" ->
                        _get_request_data_list(StoreNow, course_translations)
                  [] lastOp'.name = "pull_command" -> _get_request_data_dict(StoreNow, now)
                  [] OTHER -> _get_json_data_from_translated_blocks(
                                  StoreNow, translated_course_blocks(StoreNow))]_vars

\* a push without --commit has reported a request list that is not empty
\* while items are flagged
C31_Witness ==
    /\ lastOp.name = "push_command"
    /\ ~lastOp.arg
    /\ lastOp.log.report # NoMap
    /\ \E it \in DOMAIN items : items[it].content_updated \/ items[it].mapping_updated

\* C32: a block that has links is reported as translated (is_block_translated)
\* exactly when every link of it has a non-empty translated text and, for an
\* item with parsed keys, every parsed key is in the translation with a
\* non-empty value.
C32_AsStated ==
    \A b \in DOMAIN blocks :
        LinksOfTarget(links, b) # {} =>
           (is_block_translated(StoreNow, b) <=>
              \A i \in LinksOfTarget(links, b) :
                 /\ links[i].translation # NoMap
                 /\ \A k \in UnitKeys(StoreNow, links[i].source) :
                       /\ k \in DOMAIN links[i].translation
                       /\ links[i].translation[k] \notin {"", "None"})

\* C34: every key made from an element's path consists of letters, digits,
\* '.', '_' and '-' only, and converting the key back gives the path.
C34_AsStated ==
    lastOp.name = "meta_key" =>
       /\ \A i \in DOMAIN lastOp.log.key :
             lastOp.log.key[i] \in Letters \cup Digits \cup {".", "_", "-"}
       /\ lastOp.log.xpath = lastOp.arg

\* a text with None read as the empty text, without its outer whitespace
Trimmed(v) == IF v = NoText THEN <<>> ELSE strip(v, Whitespace)

\* C33: recomposing the decomposition of a document over the document itself
\* gives the document back up to whitespace trimming: every text and answer
\* attribute of a problem, and every cue text of a transcript.
C33_AsStated ==
    /\ lastOp.name = "problem_round_trip" =>
          /\ lastOp.log.err = "none"
          /\ DOMAIN lastOp.log.raw = DOMAIN lastOp.arg
          /\ \A p \in DOMAIN lastOp.arg :
                /\ Trimmed(lastOp.log.raw[p].text) = Trimmed(lastOp.arg[p].text)
                /\ Trimmed(lastOp.log.raw[p].answer) = Trimmed(lastOp.arg[p].answer)
    /\ lastOp.name = "video_round_trip" =>
          /\ lastOp.log.err = "none"
          /\ Len(lastOp.log.raw) = Len(lastOp.arg.text)
          /\ \A i \in DOMAIN lastOp.arg.text :
                Trimmed(lastOp.log.raw[i]) = Trimmed(lastOp.arg.text[i])

\* C35: an item of a base block whose mapping_updated flag is set is
\* eventually pushed: a later push with --commit selects its block and
\* clears the flag (or the item is gone).
C35_AsStated ==
    \A it \in {x \in DOMAIN SyncStore.items : x[1][1] = BaseCourse} :
        (it \in DOMAIN items /\ items[it].mapping_updated)
            ~> (it \notin DOMAIN items \/ ~items[it].mapping_updated)

\* the units of item it differ from the ones the request list carries for
\* its block
ChangedSince(data_list, it) ==
    /\ it[1] \in DOMAIN data_list
    /\ \E k \in DOMAIN RequestUnitsOfItem(StoreNow, it) :
          \/ k \notin DOMAIN data_list[it[1]]
          \/ data_list[it[1]][k] # RequestUnitsOfItem(StoreNow, it)[k]

\* C36: when a push run ends, an item whose content was changed after the
\* run built its request list, and which is flagged content_updated for
\* that change, is still flagged.
C36_AsStated ==
    [][("push" \in DOMAIN runs /\ "push" \notin DOMAIN runs') =>
          \A it \in DOMAIN items :
              (items[it].content_updated /\ ChangedSince(runs["push"].data_list, it))
                  => (it \in DOMAIN items' /\ items'[it].content_updated)]_vars

\* C37: a language is in a block's lang list exactly when a block of a
\* course in that language, with direction Destination, has a link to one
\* of the block's items.
C37_AsStated ==
    \A b \in DOMAIN blocks : \A language \in {CourseLanguage(c) : c \in Courses} :
        language \in blocks[b].lang <=>
            \E i \in LinksOfSourceBlock(links, b) :
                /\ links[i].target \in DOMAIN blocks
                /\ blocks[links[i].target].direction_flag = _DESTINATION
                /\ CourseLanguage(links[i].target[1]) = language

C39_AsStated ==
    \A i \in DOMAIN links : \A j \in DOMAIN links :
        links[i].target = links[j].target => links[i].source[1] = links[j].source[1]

\* C40: when a pull writes a new text onto a link of a block whose
\* applied_translation flag is set, the flag is cleared by that pull.
C40_AsStated ==
    [][lastOp'.name = "pull" =>
          \A i \in DOMAIN links \cap DOMAIN links' :
              (/\ links'[i].target = links[i].target
               /\ links'[i].translation # NoMap
               /\ links'[i].translation # links[i].translation
               /\ blocks[links[i].target].applied_translation)
                  => ~blocks'[links[i].target].applied_translation]_vars

====
